---- MODULE Spec2Model ----
(***************************************************************************)
(* A model of open-research-pipeline:                                      *)
(*   - the claim protocol of core/github_client.py (GitHubClient), run by  *)
(*     several workers against one shared issue tracker;                   *)
(*   - the experiment pipeline of core/runner.py (ExperimentRunner):       *)
(*     supervisor, validator, packager, result;                            *)
(*   - the result store of the runner (its constructor and save_result);   *)
(*   - update_experiment_status and add_experiment_comment of the client,  *)
(*     and run_github_experiment, which projects a run onto its issue.     *)
(*   - the commands run, batch and run_github of cli/__init__.py, which    *)
(*     construct a runner, run experiments and save their results.         *)
(* Every call to the issue tracker is one atomic step, so the calls of     *)
(* different workers interleave freely.  A call to the tracker, the file   *)
(* system or the child process may fail: its outcome is chosen with \E.    *)
(***************************************************************************)
EXTENDS Integers, Sequences, FiniteSets, TLC

(***************************************************************************)
(* Bounds of the model.                                                    *)
(***************************************************************************)
NumWorkers == 2
NumIssues == 1
MaxCalls == 2
\* The longest required_keys list of a deliverable.
MaxKeys == 2
\* The number of run_experiment calls, and the last second of the clock.
MaxRuns == 1
MaxClock == 1
\* The number of update_experiment_status / add_experiment_comment calls a
\* caller other than run_github_experiment makes.
MaxUpdates == 2
\* The most config files the batch command finds in its directory.
MaxBatch == 2

Workers == 1..NumWorkers
Issues == 1..NumIssues
Users == {"alice", "bob"}
None == "None"

\* The label claim_experiment attaches, and the color it creates it with.
ClaimedLabel == "claimed"
ClaimedColor == "FFA500"
\* The color of a `claimed` label that somebody else created beforehand.
OtherColor == "ededed"

Range(f) == {f[x] : x \in DOMAIN f}

VARIABLES
    \* ---- the issue tracker (authoritative, shared by all workers)
    assignee,      \* issue -> login of its assignee, or None
    ilabels,       \* issue -> set of label names attached to it
    rlabels,       \* label name -> color, for the labels of the repository
    comments,      \* issue -> sequence of comment texts
    \* ---- one claim_experiment invocation per worker
    cpc,           \* worker -> position in claim_experiment
    carg,          \* worker -> [issue, who]: the arguments of the call
    csnap,         \* worker -> issue.assignee as fetched by get_issue
    cret,          \* worker -> "none" | "true" | "false" | "raised"
    cdid,          \* worker -> store mutations this invocation has made
    cfailed,       \* worker -> store calls that raised in this invocation
    ccalls,        \* number of claim_experiment invocations started so far
    \* ---- one call of _validate_deliverables on one deliverable
    vpc,           \* "input" | "done"
    vdeliv,        \* the deliverable specification
    vwd,           \* the working directory it is validated against
    vstatus,       \* the returned mapping type -> status entry
    \* ---- the runner: one run_experiment call at a time
    rpc,           \* position in run_experiment
    cfg,           \* the ExperimentConfig object passed to the call
    now,           \* the wall clock, in seconds
    wd,            \* the scratch working directory (temp_path)
    archives,      \* second of the experiment id -> the archive at zip_path
    experiment_id, \* local: experiment_id
    start_time,    \* local: start_time
    cmd,           \* local of _run_training_script: the argument list
    exitcode,      \* proc.returncode, NoExit before the child has exited
    exc,           \* the exception `e` caught by `except Exception as e`
    dstatus,       \* local: deliverables_status
    zip_path,      \* local: zip_path (NoPath for None)
    stdout_ref,    \* local: stdout_zip_path
    stderr_ref,    \* local: stderr_zip_path
    end_time,      \* local: end_time
    result,        \* the ExperimentResult built by the call
    outcome,       \* "none" | "raising" | "returned" | "raised"
    ev,            \* what the call has done so far, in order
    phases,        \* the orchestration states entered so far, in order
    runs,          \* number of run_experiment calls started
    \* ---- the result store: the directories under base_dir
    ctor,          \* the last ExperimentRunner(...) call, and whether a runner exists
    dirs,          \* directory name -> "absent" | "dir" | "file"
    rfiles,        \* result set -> the files in it: second of the id -> record
    sarg,          \* the Result passed to the last save_result call
    sret,          \* "none" | "returned" | "raised": how that call ended
    \* ---- one update_experiment_status / add_experiment_comment call
    upc,           \* position in the call
    uarg,          \* [op, issue, status, comment, caller]: the call
    utodo,         \* the labels of the fetched issue the loop has yet to visit
    uret,          \* "none" | "returned" | "raised"
    ufailed,       \* the store calls that raised in this call
    upre,          \* the labels and comments of the items when the call was made
    ucalls,        \* number of calls made by the other callers
    \* ---- one run_github_experiment call
    gpc,           \* position in run_github_experiment
    gissue,        \* issue_number
    gcfg,          \* the config made by _config_from_github_issue
    gret,          \* "none" | "returned" | "raised"
    glog,          \* the status updates and the run of this call, in order
    \* ---- one command of the command line (run, batch, run_github)
    kpc,           \* position in the command
    kcmd,          \* "none" | "run" | "batch" | "run_github"
    ktodo,         \* the config files the command has yet to process
    ksaves         \* the Results passed to save_result so far: id and status

storeVars == <<assignee, ilabels, rlabels, comments>>
claimVars == <<cpc, carg, csnap, cret, cdid, cfailed, ccalls>>
valVars == <<vpc, vdeliv, vwd, vstatus>>
runVars == <<rpc, cfg, now, wd, archives, experiment_id, start_time, cmd,
             exitcode, exc, dstatus, zip_path, stdout_ref, stderr_ref,
             end_time, result, outcome, ev, phases, runs>>
fsVars == <<ctor, dirs, rfiles, sarg, sret>>
updVars == <<upc, uarg, utodo, uret, ufailed, upre, ucalls>>
ghVars == <<gpc, gissue, gcfg, gret, glog>>
cliVars == <<kpc, kcmd, ktodo, ksaves>>
vars == <<storeVars, claimVars, valVars, runVars, fsVars, updVars, ghVars, cliVars>>

(***************************************************************************)
(* Paths, the scratch working directory and the documents in it.           *)
(***************************************************************************)

\* A path is a sequence of components; a component has a stem and a suffix
\* (pathlib's .suffix).  The empty path is the working directory itself.
Comp(stem, ext) == [stem |-> stem, ext |-> ext]
PRoot == <<>>
PJson == <<Comp("metrics", ".json")>>
PModel == <<Comp("model", "")>>
POut == <<Comp("output", "")>>
POutW == <<Comp("output", ""), Comp("weights", ".bin")>>
PStdout == <<Comp("training_stdout", ".txt")>>
PStderr == <<Comp("training_stderr", ".txt")>>

LogFiles == {PStdout, PStderr}
\* The files a child process may leave in its working directory.
ChildFiles == {PJson, PModel, POutW}
\* A fixed order of all files, standing for the order rglob yields them in.
FileOrder == <<PJson, PModel, POutW, PStdout, PStderr>>

Suffix(p) == IF p = <<>> THEN "" ELSE p[Len(p)].ext
Under(dir, f) == Len(f) > Len(dir) /\ SubSeq(f, 1, Len(dir)) = dir

\* The content of the one .json file: what json.load makes of it.
Keys == {"accuracy", "loss"}
Docs ==
    [kind : {"object", "array"}, keys : SUBSET Keys]
        \cup {[kind |-> "number", keys |-> {}], [kind |-> "invalid", keys |-> {}]}
NoDoc == [kind |-> "invalid", keys |-> {}]

\* A working directory: whether it exists, its files, the .json content.
NoDir == [exists |-> FALSE, files |-> {}, doc |-> NoDoc]
IsFile(w, p) == w.exists /\ p \in w.files
IsDir(w, p) == w.exists /\ (p = PRoot \/ \E f \in w.files : Under(p, f))
Exists(w, p) == IsFile(w, p) \/ IsDir(w, p)

\* str(full_path), full_path = working_dir / path
FullPath(p) == [base |-> "working_dir", rel |-> p]

(***************************************************************************)
(* ExperimentRunner._validate_deliverables                                 *)
(***************************************************************************)

KeySeqs == UNION {[1..n -> Keys] : n \in 0..MaxKeys}
Deliverables ==
    [type : {"metrics", "model"},
     path : {PJson, PModel, POut},
     validation : {"exists", "contains_keys", "checksum"},
     required_keys : KeySeqs]

\* The status entry of one deliverable; `fields` are the keys of the dict.
StatusEntry(status, p, validated, fields, missing, error) ==
    [status |-> status, path |-> FullPath(p), validated |-> validated,
     fields |-> {"status", "path", "validated"} \cup fields,
     missing_keys |-> missing, error |-> error]

\* The `exists` branch and the default (`else`) branch.
ExistsEntry(d, w) ==
    StatusEntry(IF Exists(w, d.path) THEN "delivered" ELSE "missing",
                d.path, Exists(w, d.path), {}, <<>>, "")

\* `key in data` on what json.load returned: membership among the keys of an
\* object or the elements of an array; a TypeError on a number.
KeyIn(k, doc) == k \in doc.keys
KeyInRaises(doc) == doc.kind = "number"

\* [k for k in required_keys if k not in data]
MissingKeys(required, doc) == SelectSeq(required, LAMBDA k : ~KeyIn(k, doc))

\* The `contains_keys` branch.
ContainsKeysEntry(d, w) ==
    IF Exists(w, d.path) /\ Suffix(d.path) = ".json"
    THEN IF w.doc.kind = "invalid"
         THEN StatusEntry("error", d.path, FALSE, {"error"}, <<>>, "JSONDecodeError")
         ELSE IF d.required_keys # <<>> /\ KeyInRaises(w.doc)
         THEN StatusEntry("error", d.path, FALSE, {"error"}, <<>>, "TypeError")
         ELSE LET has_keys == \A i \in DOMAIN d.required_keys :
                                  KeyIn(d.required_keys[i], w.doc)
              IN  StatusEntry("delivered", d.path, has_keys, {"missing_keys"},
                              IF ~has_keys THEN MissingKeys(d.required_keys, w.doc)
                                           ELSE <<>>,
                              "")
    ELSE StatusEntry("missing", d.path, FALSE, {}, <<>>, "")

ValidateOne(d, w) ==
    IF d.validation = "exists" THEN ExistsEntry(d, w)
    ELSE IF d.validation = "contains_keys" THEN ContainsKeysEntry(d, w)
    ELSE ExistsEntry(d, w)

\* status[deliverable_type] = ..., for each deliverable in order.
RECURSIVE ValidateFrom(_, _, _, _)
ValidateFrom(ds, w, i, status) ==
    IF i > Len(ds) THEN status
    ELSE ValidateFrom(ds, w, i + 1,
            [t \in DOMAIN status \cup {ds[i].type} |->
                IF t = ds[i].type THEN ValidateOne(ds[i], w) ELSE status[t]])

ValidateDeliverables(ds, w) == ValidateFrom(ds, w, 1, <<>>)

\* The validator applied to one deliverable and one working directory.
InitValidateIdle ==
    /\ vpc = "done"
    /\ vdeliv = [type |-> "metrics", path |-> PJson, validation |-> "exists",
                 required_keys |-> <<>>]
    /\ vwd = NoDir
    /\ vstatus = <<>>

InitValidate ==
    /\ vpc = "input"
    /\ vdeliv \in Deliverables
    /\ vwd \in [exists : {TRUE}, files : SUBSET {PJson, PModel}, doc : Docs]
    /\ vstatus = <<>>

ValidateCall ==
    /\ vpc = "input"
    /\ vstatus' = ValidateDeliverables(<<vdeliv>>, vwd)
    /\ vpc' = "done"
    /\ UNCHANGED <<vdeliv, vwd>>

(***************************************************************************)
(* ExperimentRunner._package_artifacts: the entries written to the zip.    *)
(***************************************************************************)

\* A mutation of the loop body: a deliverable directory is not walked.
EntriesOfFilesOnly(d, w) == IF IsFile(w, d.path) THEN <<d.path>> ELSE <<>>

\* What one deliverable contributes: a file at its path as given, the files
\* under a directory at their paths relative to the working directory.
EntriesOf(d, w) ==
    IF ~Exists(w, d.path) THEN <<>>
    ELSE IF IsFile(w, d.path) THEN <<d.path>>
    ELSE IF IsDir(w, d.path)
         THEN SelectSeq(FileOrder, LAMBDA f : f \in w.files /\ Under(d.path, f))
    ELSE <<>>

RECURSIVE DeliverableEntries(_, _, _)
DeliverableEntries(ds, w, i) ==
    IF i > Len(ds) THEN <<>>
    ELSE EntriesOf(ds[i], w) \o DeliverableEntries(ds, w, i + 1)

\* A mutation of the packager: the log files are not added.
PackageEntriesNoLogs(ds, w) == DeliverableEntries(ds, w, 1)

\* Every zip_file.write of _package_artifacts, in order.
PackageEntries(ds, w) ==
    DeliverableEntries(ds, w, 1)
        \o (IF Exists(w, PStdout) THEN <<PStdout>> ELSE <<>>)
        \o (IF Exists(w, PStderr) THEN <<PStderr>> ELSE <<>>)

(***************************************************************************)
(* ExperimentConfig, the rendered command, and the values of a Result.     *)
(***************************************************************************)

\* A string is a sequence of characters; " " is the only whitespace.
\* training_script is a list of tokens (kind "list") or a string ("str").
ListScript(toks) == [kind |-> "list", toks |-> toks, text |-> <<>>]
StrScript(text) == [kind |-> "str", toks |-> <<>>, text |-> text]
Scripts ==
    {ListScript(<<>>), ListScript(<< <<"p">> >>),
     StrScript(<<>>), StrScript(<<" ">>), StrScript(<<"p", " ", "a">>)}

\* `not config.training_script`
Falsy(script) ==
    IF script.kind = "list" THEN script.toks = <<>> ELSE script.text = <<>>

\* str.split(): the maximal runs of non-whitespace characters.
RECURSIVE SplitFrom(_, _, _)
SplitFrom(text, i, cur) ==
    IF i > Len(text) THEN (IF cur = <<>> THEN <<>> ELSE <<cur>>)
    ELSE IF text[i] = " "
         THEN (IF cur = <<>> THEN <<>> ELSE <<cur>>) \o SplitFrom(text, i + 1, <<>>)
    ELSE SplitFrom(text, i + 1, Append(cur, text[i]))

Split(text) == SplitFrom(text, 1, <<>>)

\* A value of training_config: a bool or a number.
BoolVal(b) == [t |-> "bool", b |-> b, n |-> 0]
IntVal(n) == [t |-> "int", b |-> FALSE, n |-> n]
Digits == <<"0", "1", "2", "3", "4", "5", "6", "7", "8", "9">>
\* str(value), for the one-digit numbers of the model
Str(v) == <<Digits[v.n + 1]>>

Param(key, val) == [key |-> key, val |-> val]
ParamLists ==
    {<<>>,
     <<Param(<<"l", "r">>, IntVal(1)), Param(<<"v">>, BoolVal(TRUE)),
       Param(<<"q">>, BoolVal(FALSE))>>}

\* A mutation of the loop body: a bool is rendered like any other value.
FlagsOfNoBool(p) == << <<"-", "-">> \o p.key, Str(p.val) >>

\* The arguments one training_config item appends to cmd.
FlagsOf(p) ==
    IF p.val.t = "bool"
    THEN (IF p.val.b THEN << <<"-", "-">> \o p.key >> ELSE <<>>)
    ELSE << <<"-", "-">> \o p.key, Str(p.val) >>

RECURSIVE FlagsFrom(_, _)
FlagsFrom(params, i) ==
    IF i > Len(params) THEN <<>>
    ELSE FlagsOf(params[i]) \o FlagsFrom(params, i + 1)

\* cmd after the loop over training_config.items()
Render(c) ==
    (IF c.script.kind = "list" THEN c.script.toks ELSE Split(c.script.text))
        \o FlagsFrom(c.params, 1)

MetricsDeliverable ==
    [type |-> "metrics", path |-> PJson, validation |-> "contains_keys",
     required_keys |-> <<"accuracy", "loss">>]
OutputDeliverable ==
    [type |-> "model", path |-> POut, validation |-> "exists",
     required_keys |-> <<>>]
DeliverableLists ==
    {<<>>, <<MetricsDeliverable>>, <<MetricsDeliverable, OutputDeliverable>>}

Configs == [script : Scripts, params : ParamLists, deliverables : DeliverableLists]
NoConfig == [script |-> StrScript(<<>>), params |-> <<>>, deliverables |-> <<>>]

\* What a child process can leave behind: files and the .json content.
ChildDocs ==
    {[kind |-> "object", keys |-> {"accuracy"}],
     [kind |-> "object", keys |-> Keys],
     [kind |-> "invalid", keys |-> {}]}
ChildOutputs ==
    {[files |-> {}, doc |-> NoDoc]}
        \cup [files : {{PJson}, {PJson, POutW}}, doc : ChildDocs]
ExitCodes == {0, 1, 2}
NoExit == -1

\* Exceptions; str(e) keeps the text, the exit code and the file named in it.
Exc(type, text, code, file) ==
    [type |-> type, text |-> text, code |-> code, file |-> file]
NoExc == Exc("", "", NoExit, "")
ConfigError == Exc("ValueError", "No training script specified", NoExit, "")
EmptyArgsError == Exc("IndexError", "list index out of range", NoExit, "")
SpawnError == Exc("OSError", "No such file or directory", NoExit, "")
ValidatorError == Exc("OSError", "validator", NoExit, "")
PackagerError == Exc("OSError", "packager", NoExit, "")

\* A mutation of the message: the return code is left out.
ExitErrorNoCode(code) ==
    Exc("RuntimeError", "Training script failed. See {file} for details.",
        NoExit, "training_stderr.txt")

\* RuntimeError(f"Training script failed (exit {proc.returncode}). See
\* training_stderr.txt for details.")
ExitError(code) ==
    Exc("RuntimeError", "Training script failed (exit {code}). See {file} for details.",
        code, "training_stderr.txt")

StrOf(e) == [text |-> e.text, code |-> e.code, file |-> e.file]
NoMessage == StrOf(NoExc)

\* f"exp_{datetime.now().strftime('%Y%m%d_%H%M%S')}"
ExpId(second) == [prefix |-> "exp_", second |-> second]
NoTime == -1

\* self.artifacts_dir / f"{experiment_id}_artifacts.zip"
ZipPath(id) == [dir |-> "artifacts", id |-> id, suffix |-> "_artifacts.zip"]
NoPath == [dir |-> "", id |-> ExpId(NoTime), suffix |-> ""]

\* f"{zip_path}::training_stdout.txt"
Ref(zp, entry) == [zip |-> zp, sep |-> "::", entry |-> entry]
NoRef == [zip |-> NoPath, sep |-> "", entry |-> <<>>]

NoArchive == [present |-> FALSE, complete |-> FALSE, entries |-> <<>>]

NoResult ==
    [experiment_id |-> ExpId(NoTime), status |-> "", start_time |-> NoTime,
     end_time |-> NoTime, deliverables_status |-> <<>>,
     error_message |-> NoMessage, artifacts_path |-> NoPath,
     training_stdout_path |-> NoRef, training_stderr_path |-> NoRef]

InitRun ==
    /\ rpc = "idle"
    /\ cfg = NoConfig
    /\ now = 0
    /\ wd = NoDir
    /\ archives = [t \in 0..MaxClock |-> NoArchive]
    /\ experiment_id = ExpId(NoTime)
    /\ start_time = NoTime
    /\ cmd = <<>>
    /\ exitcode = NoExit
    /\ exc = NoExc
    /\ dstatus = <<>>
    /\ zip_path = NoPath
    /\ stdout_ref = NoRef
    /\ stderr_ref = NoRef
    /\ end_time = NoTime
    /\ result = NoResult
    /\ outcome = "none"
    /\ ev = <<>>
    /\ phases = <<>>
    /\ runs = 0

(***************************************************************************)
(* The issue tracker and the claim protocol: state.                        *)
(***************************************************************************)

\* f"Experiment claimed by @{assignee}"
ClaimComment(who) == <<"Experiment claimed by @", who>>

NoArg == [issue |-> 0, who |-> None]

InitStore ==
    /\ assignee \in [Issues -> Users \cup {None}]
    /\ ilabels = [i \in Issues |-> {}]
    /\ rlabels \in {<<>>, [l \in {ClaimedLabel} |-> ClaimedColor],
                     [l \in {ClaimedLabel} |-> OtherColor]}
    /\ comments = [i \in Issues |-> <<>>]

InitClaim ==
    /\ cpc = [w \in Workers |-> "idle"]
    /\ carg = [w \in Workers |-> NoArg]
    /\ csnap = [w \in Workers |-> None]
    /\ cret = [w \in Workers |-> "none"]
    /\ cdid = [w \in Workers |-> {}]
    /\ cfailed = [w \in Workers |-> {}]
    /\ ccalls = 0


(***************************************************************************)
(* GitHubClient.claim_experiment, one action per store call.               *)
(***************************************************************************)

\* A caller invokes claim_experiment(issue_number, assignee); a worker whose
\* previous call has returned ("done") may call again.
ClaimCall(w) ==
    /\ cpc[w] \in {"idle", "done"}
    /\ ccalls < MaxCalls
    /\ \E i \in Issues, a \in Users :
          carg' = [carg EXCEPT ![w] = [issue |-> i, who |-> a]]
    /\ cpc' = [cpc EXCEPT ![w] = "get_issue"]
    /\ csnap' = [csnap EXCEPT ![w] = None]
    /\ cret' = [cret EXCEPT ![w] = "none"]
    /\ cdid' = [cdid EXCEPT ![w] = {}]
    /\ cfailed' = [cfailed EXCEPT ![w] = {}]
    /\ ccalls' = ccalls + 1
    /\ UNCHANGED storeVars

\* A mutation of the outer handler: the exception leaves claim_experiment.
ClaimHandlerPropagates(w, call) ==
    /\ cpc' = [cpc EXCEPT ![w] = "done"]
    /\ cret' = [cret EXCEPT ![w] = "raised"]
    /\ cfailed' = [cfailed EXCEPT ![w] = @ \cup {call}]
    /\ UNCHANGED <<storeVars, carg, csnap, cdid, ccalls>>

\* `except Exception as e: ... return False`: the handler of the outer try.
ClaimHandler(w, call) ==
    /\ cpc' = [cpc EXCEPT ![w] = "done"]
    /\ cret' = [cret EXCEPT ![w] = "false"]
    /\ cfailed' = [cfailed EXCEPT ![w] = @ \cup {call}]
    /\ UNCHANGED <<storeVars, carg, csnap, cdid, ccalls>>

\* A mutation of get_issue: the `if issue.assignee: return False` is missing.
ClaimGetIssueNoCheck(w) ==
    /\ cpc[w] = "get_issue"
    /\ \/ /\ csnap' = [csnap EXCEPT ![w] = assignee[carg[w].issue]]
          /\ cpc' = [cpc EXCEPT ![w] = "get_user"]
          /\ UNCHANGED <<storeVars, carg, cret, cdid, cfailed, ccalls>>
       \/ ClaimHandler(w, "get_issue")

\* issue = self.repo.get_issue(issue_number); if issue.assignee: return False
ClaimGetIssue(w) ==
    /\ cpc[w] = "get_issue"
    /\ \/ /\ csnap' = [csnap EXCEPT ![w] = assignee[carg[w].issue]]
          /\ IF assignee[carg[w].issue] # None
                THEN /\ cpc' = [cpc EXCEPT ![w] = "done"]
                     /\ cret' = [cret EXCEPT ![w] = "false"]
                ELSE /\ cpc' = [cpc EXCEPT ![w] = "get_user"]
                     /\ UNCHANGED cret
          /\ UNCHANGED <<storeVars, carg, cdid, cfailed, ccalls>>
       \/ ClaimHandler(w, "get_issue")

\* user = self.github.get_user(assignee)
ClaimGetUser(w) ==
    /\ cpc[w] = "get_user"
    /\ \/ /\ cpc' = [cpc EXCEPT ![w] = "edit"]
          /\ UNCHANGED <<storeVars, carg, csnap, cret, cdid, cfailed, ccalls>>
       \/ ClaimHandler(w, "get_user")

\* issue.edit(assignee=user): the store keeps the last write.
ClaimEdit(w) ==
    /\ cpc[w] = "edit"
    /\ \/ /\ assignee' = [assignee EXCEPT ![carg[w].issue] = carg[w].who]
          /\ cdid' = [cdid EXCEPT ![w] = @ \cup {"assign"}]
          /\ cpc' = [cpc EXCEPT ![w] = "get_label"]
          /\ UNCHANGED <<ilabels, rlabels, comments, carg, csnap, cret, cfailed, ccalls>>
       \/ ClaimHandler(w, "edit")

\* The inner `except:` of the label step: any failure of the first
\* get_label / add_to_labels continues at create_label.
ClaimInnerExcept(w, call) ==
    /\ cpc' = [cpc EXCEPT ![w] = "create_label"]
    /\ cfailed' = [cfailed EXCEPT ![w] = @ \cup {call}]
    /\ UNCHANGED <<storeVars, carg, csnap, cret, cdid, ccalls>>

\* claimed_label = self.repo.get_label("claimed"), inside the inner try.
\* The store answers only for a label of the repository.
ClaimGetLabel(w) ==
    /\ cpc[w] = "get_label"
    /\ \/ /\ ClaimedLabel \in DOMAIN rlabels
          /\ cpc' = [cpc EXCEPT ![w] = "add_label"]
          /\ UNCHANGED <<storeVars, carg, csnap, cret, cdid, cfailed, ccalls>>
       \/ ClaimInnerExcept(w, "get_label")

\* issue.add_to_labels(claimed_label), inside the inner try.
ClaimAddLabel(w) ==
    /\ cpc[w] = "add_label"
    /\ \/ /\ ilabels' = [ilabels EXCEPT ![carg[w].issue] = @ \cup {ClaimedLabel}]
          /\ cdid' = [cdid EXCEPT ![w] = @ \cup {"attach"}]
          /\ cpc' = [cpc EXCEPT ![w] = "comment"]
          /\ UNCHANGED <<assignee, rlabels, comments, carg, csnap, cret, cfailed, ccalls>>
       \/ ClaimInnerExcept(w, "add_label")

\* self.repo.create_label("claimed", "FFA500"): the store refuses a name
\* that is already a label of the repository.
ClaimCreateLabel(w) ==
    /\ cpc[w] = "create_label"
    /\ \/ /\ ClaimedLabel \notin DOMAIN rlabels
          /\ rlabels' = [l \in DOMAIN rlabels \cup {ClaimedLabel} |->
                            IF l = ClaimedLabel THEN ClaimedColor ELSE rlabels[l]]
          /\ cdid' = [cdid EXCEPT ![w] = @ \cup {"create"}]
          /\ cpc' = [cpc EXCEPT ![w] = "get_label2"]
          /\ UNCHANGED <<assignee, ilabels, comments, carg, csnap, cret, cfailed, ccalls>>
       \/ ClaimHandler(w, "create_label")

\* claimed_label = self.repo.get_label("claimed"), in the inner handler.
ClaimGetLabel2(w) ==
    /\ cpc[w] = "get_label2"
    /\ \/ /\ ClaimedLabel \in DOMAIN rlabels
          /\ cpc' = [cpc EXCEPT ![w] = "add_label2"]
          /\ UNCHANGED <<storeVars, carg, csnap, cret, cdid, cfailed, ccalls>>
       \/ ClaimHandler(w, "get_label2")

\* issue.add_to_labels(claimed_label), in the inner handler.
ClaimAddLabel2(w) ==
    /\ cpc[w] = "add_label2"
    /\ \/ /\ ilabels' = [ilabels EXCEPT ![carg[w].issue] = @ \cup {ClaimedLabel}]
          /\ cdid' = [cdid EXCEPT ![w] = @ \cup {"attach"}]
          /\ cpc' = [cpc EXCEPT ![w] = "comment"]
          /\ UNCHANGED <<assignee, rlabels, comments, carg, csnap, cret, cfailed, ccalls>>
       \/ ClaimHandler(w, "add_label2")

\* A mutation of the last step: True is returned without the audit comment.
ClaimCommentSkipped(w) ==
    /\ cpc[w] = "comment"
    /\ cpc' = [cpc EXCEPT ![w] = "done"]
    /\ cret' = [cret EXCEPT ![w] = "true"]
    /\ UNCHANGED <<storeVars, carg, csnap, cdid, cfailed, ccalls>>

\* issue.create_comment(f"Experiment claimed by @{assignee}"); return True
ClaimComment_(w) ==
    /\ cpc[w] = "comment"
    /\ \/ /\ comments' = [comments EXCEPT ![carg[w].issue] =
                              Append(@, ClaimComment(carg[w].who))]
          /\ cdid' = [cdid EXCEPT ![w] = @ \cup {"comment"}]
          /\ cpc' = [cpc EXCEPT ![w] = "done"]
          /\ cret' = [cret EXCEPT ![w] = "true"]
          /\ UNCHANGED <<assignee, ilabels, rlabels, carg, csnap, cfailed, ccalls>>
       \/ ClaimHandler(w, "comment")

NextClaim ==
    \E w \in Workers :
        \/ ClaimCall(w) /\ UNCHANGED <<valVars, runVars, fsVars, updVars, ghVars, cliVars>>
        \/ ClaimGetIssue(w) /\ UNCHANGED <<valVars, runVars, fsVars, updVars, ghVars, cliVars>>
        \/ ClaimGetUser(w) /\ UNCHANGED <<valVars, runVars, fsVars, updVars, ghVars, cliVars>>
        \/ ClaimEdit(w) /\ UNCHANGED <<valVars, runVars, fsVars, updVars, ghVars, cliVars>>
        \/ ClaimGetLabel(w) /\ UNCHANGED <<valVars, runVars, fsVars, updVars, ghVars, cliVars>>
        \/ ClaimAddLabel(w) /\ UNCHANGED <<valVars, runVars, fsVars, updVars, ghVars, cliVars>>
        \/ ClaimCreateLabel(w) /\ UNCHANGED <<valVars, runVars, fsVars, updVars, ghVars, cliVars>>
        \/ ClaimGetLabel2(w) /\ UNCHANGED <<valVars, runVars, fsVars, updVars, ghVars, cliVars>>
        \/ ClaimAddLabel2(w) /\ UNCHANGED <<valVars, runVars, fsVars, updVars, ghVars, cliVars>>
        \/ ClaimComment_(w) /\ UNCHANGED <<valVars, runVars, fsVars, updVars, ghVars, cliVars>>

(***************************************************************************)
(* The result store, the status updates and run_github_experiment: state.  *)
(***************************************************************************)

\* [self.queue_dir, self.completed_dir, self.failed_dir, self.artifacts_dir]
DirNames == <<"queue", "completed", "failed", "artifacts">>
\* The directories that hold result records.
ResultSets == {"queue", "completed", "failed"}

\* datetime.isoformat(), and the null json.dump writes for None.
IsoFormat(t) ==
    IF t = NoTime THEN <<"null">> ELSE <<"1970-01-01T00:00:0", Digits[t + 1]>>

\* result_data of save_result: the fields of the Result, the times as text.
ResultData(r) ==
    [r EXCEPT !.start_time = IsoFormat(r.start_time),
              !.end_time = IsoFormat(r.end_time)]

\* A file <second of the id>.json of a result set: absent, written in full,
\* or opened for writing (truncated) and not written.
NoRecord == [present |-> FALSE, complete |-> FALSE, data |-> ResultData(NoResult)]
Record(r) == [present |-> TRUE, complete |-> TRUE, data |-> ResultData(r)]
Truncated == [present |-> TRUE, complete |-> FALSE, data |-> ResultData(NoResult)]

\* The file <id>.json of a result set in the files f, and f with it written.
Filed(f, set, t) == IF t \in DOMAIN f[set] THEN f[set][t] ELSE NoRecord
Put(f, set, t, rec) ==
    [f EXCEPT ![set] = [x \in DOMAIN f[set] \cup {t} |->
                           IF x = t THEN rec ELSE f[set][x]]]

\* status: str  # "completed", "failed", "running"
Statuses == {"completed", "failed", "running"}

\* The Results a caller passes to save_result: of the first and of the last
\* second, a running one without an end_time.
SavedResults ==
    {[NoResult EXCEPT !.experiment_id = ExpId(t), !.status = st,
                      !.start_time = t,
                      !.end_time = IF st = "running" THEN NoTime ELSE MaxClock] :
        t \in {0, MaxClock}, st \in Statuses}

\* sarg before the first save_result call.
NoSaved == [experiment_id |-> ExpId(NoTime), status |-> ""]

\* last: how the last constructor call ended; github: the client it was given;
\* runner: a runner exists; records: a record was there when it was called.
NoCtor == [last |-> "none", github |-> "none", runner |-> FALSE, records |-> FALSE]

\* The base path before a runner is constructed on it: fresh, laid out by an
\* earlier runner, or with a regular file where a directory is to be.
InitFs ==
    /\ ctor = NoCtor
    /\ dirs \in {[d \in Range(DirNames) |-> "absent"],
                 [d \in Range(DirNames) |-> "dir"],
                 [d \in Range(DirNames) |-> IF d = "failed" THEN "file" ELSE "absent"],
                 [d \in Range(DirNames) |-> IF d = "queue" THEN "file" ELSE "dir"]}
    /\ rfiles = [set \in ResultSets |-> <<>>]
    /\ sarg = NoSaved
    /\ sret = "none"

\* A runner constructed on a fresh base path.
InitFsReady ==
    /\ ctor = [last |-> "returned", github |-> "none", runner |-> TRUE,
               records |-> FALSE]
    /\ dirs = [d \in Range(DirNames) |-> "dir"]
    /\ rfiles = [set \in ResultSets |-> <<>>]
    /\ sarg = NoSaved
    /\ sret = "none"

\* status_labels = ["claimed", "in-progress", "completed", "failed"]
StatusLabels == {"claimed", "in-progress", "completed", "failed"}
\* list_experiments' default label, which is not a status label.
ExperimentLabel == "experiment"

\* color_map.get(status, "000000")
ColorMap(status) ==
    CASE status = "claimed" -> "FFA500"
      [] status = "in-progress" -> "FFFF00"
      [] status = "completed" -> "00FF00"
      [] status = "failed" -> "FF0000"
      [] OTHER -> "000000"

\* comment: Optional[str].  A text is a tuple of strings.
NoComment == <<>>
EmptyComment == <<"">>
Truthy(c) == c \notin {NoComment, EmptyComment}

NoCall == [op |-> "none", issue |-> 0, status |-> "", comment |-> NoComment,
           caller |-> "none"]

\* The labels and comments of the items when a call is made.
NoPre == [ilabels |-> [i \in Issues |-> {}], comments |-> [i \in Issues |-> <<>>]]

InitUpdate ==
    /\ upc = "idle"
    /\ uarg = NoCall
    /\ utodo = {}
    /\ uret = "none"
    /\ ufailed = {}
    /\ upre = NoPre
    /\ ucalls = 0

\* The labels an item carries before a status update.
LabelSets ==
    {{}, {ExperimentLabel, "in-progress"}, {ExperimentLabel, "claimed", "failed"}}

\* A tracker whose items carry labels, all unassigned or all assigned; every
\* label on an item is a label of the repository, which may hold further
\* labels.
InitStoreLabelled ==
    /\ assignee \in {[i \in Issues |-> None], [i \in Issues |-> "alice"]}
    /\ ilabels \in [Issues -> LabelSets]
    /\ \E more \in {{}, StatusLabels} :
          rlabels = [l \in more \cup UNION Range(ilabels) |-> OtherColor]
    /\ comments = [i \in Issues |-> <<>>]

InitGithub ==
    /\ gpc = "idle"
    /\ gissue = 0
    /\ gcfg = NoConfig
    /\ gret = "none"
    /\ glog = <<>>

\* No command has been started.
InitCli ==
    /\ kpc = "idle"
    /\ kcmd = "none"
    /\ ktodo = 0
    /\ ksaves = <<>>

\* Any tracker, every worker idle, no runner call and no validation started.
InitClaiming ==
    /\ InitStore /\ InitClaim /\ InitValidateIdle /\ InitRun
    /\ InitFsReady /\ InitUpdate /\ InitGithub /\ InitCli

\* Workers claiming items of one shared tracker.
SpecClaim == InitClaiming /\ [][NextClaim]_vars

\* The tracker before anybody has touched it.
InitStoreBlank ==
    /\ assignee = [i \in Issues |-> None]
    /\ ilabels = [i \in Issues |-> {}]
    /\ rlabels = <<>>
    /\ comments = [i \in Issues |-> <<>>]

NextValidate == ValidateCall /\ UNCHANGED <<storeVars, claimVars, cliVars, runVars, fsVars, updVars, ghVars>>

\* Any deliverable list and working directory, nothing else started.
InitValidating ==
    /\ InitStoreBlank /\ InitClaim /\ InitValidate /\ InitRun
    /\ InitFsReady /\ InitUpdate /\ InitGithub /\ InitCli

\* _validate_deliverables on every deliverable and working directory.
SpecValidate == InitValidating /\ [][NextValidate]_vars

(***************************************************************************)
(* ExperimentRunner.run_experiment, one action per step of the call.       *)
(* tempfile.mkdtemp, datetime.now and print are taken to succeed; the      *)
(* child process leaves the two log files of its working directory alone.  *)
(***************************************************************************)

\* run_experiment(c) is entered: experiment_id and start_time are read from
\* the clock and the scratch directory is made.
RunEnter(c) ==
    /\ rpc \in {"idle", "returned"}
    /\ cfg' = c
    /\ experiment_id' = ExpId(now)
    /\ start_time' = now
    /\ wd' = [exists |-> TRUE, files |-> {}, doc |-> NoDoc]
    /\ rpc' = "script"
    /\ cmd' = <<>>
    /\ exitcode' = NoExit
    /\ exc' = NoExc
    /\ dstatus' = <<>>
    /\ zip_path' = NoPath
    /\ stdout_ref' = NoRef
    /\ stderr_ref' = NoRef
    /\ end_time' = NoTime
    /\ result' = NoResult
    /\ outcome' = "none"
    /\ ev' = <<"mkdtemp">>
    /\ phases' = <<"created">>
    /\ runs' = runs + 1
    /\ UNCHANGED <<now, archives>>

\* The caller invokes run_experiment(config).
RunStart ==
    /\ runs < MaxRuns
    /\ \E c \in Configs : RunEnter(c)

\* Time passes between two calls and while the child runs.
Tick ==
    /\ rpc \in {"idle", "returned", "child"}
    /\ now < MaxClock
    /\ now' = now + 1
    /\ UNCHANGED <<rpc, cfg, wd, archives, experiment_id, start_time, cmd,
                   exitcode, exc, dstatus, zip_path, stdout_ref, stderr_ref,
                   end_time, result, outcome, ev, phases, runs>>

\* _run_training_script, up to the rendered command: the ValueError for a
\* falsy training_script; otherwise cmd is the script's list itself (a string
\* is split) with the training_config arguments appended to it.
ScriptRender ==
    /\ rpc = "script"
    /\ phases' = Append(phases, "running")
    /\ IF Falsy(cfg.script)
          THEN /\ exc' = ConfigError
               /\ rpc' = "except"
               /\ ev' = Append(ev, "config_error")
               /\ UNCHANGED <<cmd, cfg>>
          ELSE /\ cmd' = Render(cfg)
               /\ cfg' = IF cfg.script.kind = "list"
                            THEN [cfg EXCEPT !.script.toks = Render(cfg)]
                            ELSE cfg
               /\ rpc' = "spawn"
               /\ ev' = Append(ev, "render")
               /\ UNCHANGED exc
    /\ UNCHANGED <<now, wd, archives, experiment_id, start_time, exitcode,
                   dstatus, zip_path, stdout_ref, stderr_ref, end_time, result,
                   outcome, runs>>

\* The two log files are opened for writing, then subprocess.run starts the
\* child; an empty argument list or a program that cannot be started raises.
ScriptSpawn ==
    /\ rpc = "spawn"
    /\ wd' = [wd EXCEPT !.files = @ \cup LogFiles]
    /\ \/ /\ cmd = <<>>
          /\ exc' = EmptyArgsError
          /\ rpc' = "except"
          /\ ev' = Append(ev, "spawn_raised")
       \/ /\ cmd # <<>>
          /\ exc' = SpawnError
          /\ rpc' = "except"
          /\ ev' = Append(ev, "spawn_raised")
       \/ /\ cmd # <<>>
          /\ rpc' = "child"
          /\ ev' = Append(ev, "spawn")
          /\ UNCHANGED exc
    /\ UNCHANGED <<cfg, now, archives, experiment_id, start_time, cmd, exitcode,
                   dstatus, zip_path, stdout_ref, stderr_ref, end_time, result,
                   outcome, phases, runs>>

\* A mutation of the return code check: a non-zero code is not raised.
ChildExitCodeIgnored ==
    /\ rpc = "child"
    /\ \E code \in ExitCodes, out \in ChildOutputs :
          /\ wd' = [wd EXCEPT !.files = @ \cup out.files, !.doc = out.doc]
          /\ exitcode' = code
          /\ rpc' = "validate"
          /\ UNCHANGED exc
    /\ ev' = Append(ev, "exit")
    /\ UNCHANGED <<cfg, now, archives, experiment_id, start_time, cmd, dstatus,
                   zip_path, stdout_ref, stderr_ref, end_time, result, outcome,
                   phases, runs>>

\* The child writes its files and exits; subprocess.run returns, and a
\* non-zero return code raises the RuntimeError.
ChildExit ==
    /\ rpc = "child"
    /\ \E code \in ExitCodes, out \in ChildOutputs :
          /\ wd' = [wd EXCEPT !.files = @ \cup out.files, !.doc = out.doc]
          /\ exitcode' = code
          /\ IF code # 0
                THEN exc' = ExitError(code) /\ rpc' = "except"
                ELSE rpc' = "validate" /\ UNCHANGED exc
    /\ ev' = Append(ev, "exit")
    /\ UNCHANGED <<cfg, now, archives, experiment_id, start_time, cmd, dstatus,
                   zip_path, stdout_ref, stderr_ref, end_time, result, outcome,
                   phases, runs>>

\* A mutation of the call: a deliverable that is not validated raises once
\* the statuses have been computed.
ValidateStrict ==
    /\ rpc = "validate"
    /\ dstatus' = ValidateDeliverables(cfg.deliverables, wd)
    /\ ev' = Append(ev, "validate")
    /\ IF \A t \in DOMAIN dstatus' : dstatus'[t].validated
          THEN rpc' = "package" /\ UNCHANGED exc
          ELSE rpc' = "except" /\ exc' = ValidatorError
    /\ UNCHANGED <<cfg, now, wd, archives, experiment_id, start_time, cmd,
                   exitcode, zip_path, stdout_ref, stderr_ref, end_time, result,
                   outcome, phases, runs>>

\* deliverables_status = self._validate_deliverables(...).  The loop body is
\* the only code that can raise (a file system error), so it cannot with no
\* deliverables.
Validate ==
    /\ rpc = "validate"
    /\ \/ /\ dstatus' = ValidateDeliverables(cfg.deliverables, wd)
          /\ rpc' = "package"
          /\ ev' = Append(ev, "validate")
          /\ UNCHANGED exc
       \/ /\ cfg.deliverables # <<>>
          /\ exc' = ValidatorError
          /\ rpc' = "except"
          /\ ev' = Append(ev, "validate_raised")
          /\ UNCHANGED dstatus
    /\ UNCHANGED <<cfg, now, wd, archives, experiment_id, start_time, cmd,
                   exitcode, zip_path, stdout_ref, stderr_ref, end_time, result,
                   outcome, phases, runs>>

\* _package_artifacts returns: the archive at zip_path holds every entry.
ArchiveWritten ==
    archives' = [archives EXCEPT ![experiment_id.second] =
                    [present |-> TRUE, complete |-> TRUE,
                     entries |-> PackageEntries(cfg.deliverables, wd)]]

\* _package_artifacts raises: the zip could not be opened, or it was opened
\* (truncating any archive at zip_path) and holds the entries written so far.
ArchiveFailed ==
    \/ UNCHANGED archives
    \/ \E n \in 0..Len(PackageEntries(cfg.deliverables, wd)) :
          archives' = [archives EXCEPT ![experiment_id.second] =
                          [present |-> TRUE, complete |-> FALSE,
                           entries |-> SubSeq(PackageEntries(cfg.deliverables, wd), 1, n)]]

\* zip_path = self._package_artifacts(...) of the try block.
Package ==
    /\ rpc = "package"
    /\ \/ /\ ArchiveWritten
          /\ zip_path' = ZipPath(experiment_id)
          /\ rpc' = "completed"
          /\ ev' = Append(ev, "package")
          /\ UNCHANGED exc
       \/ /\ ArchiveFailed
          /\ exc' = PackagerError
          /\ rpc' = "except"
          /\ ev' = Append(ev, "package_raised")
          /\ UNCHANGED zip_path
    /\ UNCHANGED <<cfg, now, wd, experiment_id, start_time, cmd, exitcode,
                   dstatus, stdout_ref, stderr_ref, end_time, result, outcome,
                   phases, runs>>

\* A mutation of the reference: the log file is not looked for.
LogRefUnchecked(zp, log) == IF zp # NoPath THEN Ref(zp, log) ELSE NoRef

\* The log reference recorded for a log file of the working directory.
LogRef(zp, log) == IF zp # NoPath /\ Exists(wd, log) THEN Ref(zp, log) ELSE NoRef

\* result = ExperimentResult(status="completed", ...); return result
Completed ==
    /\ rpc = "completed"
    /\ end_time' = now
    /\ result' =
          [experiment_id |-> experiment_id, status |-> "completed",
           start_time |-> start_time, end_time |-> now,
           deliverables_status |-> dstatus, error_message |-> NoMessage,
           artifacts_path |-> zip_path,
           training_stdout_path |-> LogRef(zip_path, PStdout),
           training_stderr_path |-> LogRef(zip_path, PStderr)]
    /\ phases' = Append(phases, "completed")
    /\ ev' = Append(ev, "result")
    /\ rpc' = "finally"
    /\ UNCHANGED <<cfg, now, wd, archives, experiment_id, start_time, cmd,
                   exitcode, exc, dstatus, zip_path, stdout_ref, stderr_ref,
                   outcome, runs>>

\* A mutation of the handler: its packaging attempt is not in a try of its own.
ExceptPackageUncaught ==
    /\ rpc = "except"
    /\ \/ /\ ArchiveWritten
          /\ zip_path' = ZipPath(experiment_id)
          /\ stdout_ref' = LogRef(ZipPath(experiment_id), PStdout)
          /\ stderr_ref' = LogRef(ZipPath(experiment_id), PStderr)
          /\ end_time' = now
          /\ ev' = Append(ev, "package")
          /\ rpc' = "except_rmtree"
          /\ UNCHANGED outcome
       \/ /\ ArchiveFailed
          /\ ev' = Append(ev, "package_raised")
          /\ outcome' = "raising"
          /\ rpc' = "finally"
          /\ UNCHANGED <<zip_path, stdout_ref, stderr_ref, end_time>>
    /\ UNCHANGED <<cfg, now, wd, experiment_id, start_time, cmd, exitcode, exc,
                   dstatus, result, phases, runs>>

\* A mutation of the handler: it makes no packaging attempt.
ExceptPackageSkipped ==
    /\ rpc = "except"
    /\ zip_path' = NoPath
    /\ stdout_ref' = NoRef
    /\ stderr_ref' = NoRef
    /\ end_time' = now
    /\ rpc' = "except_rmtree"
    /\ UNCHANGED <<cfg, now, wd, archives, experiment_id, start_time, cmd,
                   exitcode, exc, dstatus, result, outcome, ev, phases, runs>>

\* A mutation of the handler: the exception of its packaging attempt
\* replaces the one it is handling.
ExceptPackageMasks ==
    /\ rpc = "except"
    /\ \/ /\ ArchiveWritten
          /\ zip_path' = ZipPath(experiment_id)
          /\ stdout_ref' = LogRef(ZipPath(experiment_id), PStdout)
          /\ stderr_ref' = LogRef(ZipPath(experiment_id), PStderr)
          /\ ev' = Append(ev, "package")
          /\ UNCHANGED exc
       \/ /\ ArchiveFailed
          /\ zip_path' = NoPath
          /\ stdout_ref' = NoRef
          /\ stderr_ref' = NoRef
          /\ ev' = Append(ev, "package_raised")
          /\ exc' = PackagerError
    /\ end_time' = now
    /\ rpc' = "except_rmtree"
    /\ UNCHANGED <<cfg, now, wd, experiment_id, start_time, cmd, exitcode,
                   dstatus, result, outcome, phases, runs>>

\* except Exception as e: the best-effort packaging (zip_path = None when it
\* raises), end_time, and the log references into the zip.
ExceptPackage ==
    /\ rpc = "except"
    /\ \/ /\ ArchiveWritten
          /\ zip_path' = ZipPath(experiment_id)
          /\ stdout_ref' = LogRef(ZipPath(experiment_id), PStdout)
          /\ stderr_ref' = LogRef(ZipPath(experiment_id), PStderr)
          /\ ev' = Append(ev, "package")
       \/ /\ ArchiveFailed
          /\ zip_path' = NoPath
          /\ stdout_ref' = NoRef
          /\ stderr_ref' = NoRef
          /\ ev' = Append(ev, "package_raised")
    /\ end_time' = now
    /\ rpc' = "except_rmtree"
    /\ UNCHANGED <<cfg, now, wd, experiment_id, start_time, cmd, exitcode, exc,
                   dstatus, result, outcome, phases, runs>>

\* A mutation of the failed Result: error_message is left at its default.
ExceptRmtreeNoMessage ==
    /\ rpc = "except_rmtree"
    /\ \/ wd' = NoDir /\ ev' = ev \o <<"rmtree", "result">>
       \/ UNCHANGED wd /\ ev' = ev \o <<"rmtree_raised", "result">>
    /\ result' =
          [experiment_id |-> experiment_id, status |-> "failed",
           start_time |-> start_time, end_time |-> end_time,
           deliverables_status |-> <<>>, error_message |-> NoMessage,
           artifacts_path |-> zip_path,
           training_stdout_path |-> stdout_ref,
           training_stderr_path |-> stderr_ref]
    /\ phases' = Append(phases, "failed")
    /\ rpc' = "finally"
    /\ UNCHANGED <<cfg, now, archives, experiment_id, start_time, cmd, exitcode,
                   exc, dstatus, zip_path, stdout_ref, stderr_ref, end_time,
                   outcome, runs>>

\* shutil.rmtree(temp_path) in its own try, then
\* result = ExperimentResult(status="failed", ...); return result
ExceptRmtree ==
    /\ rpc = "except_rmtree"
    /\ \/ wd' = NoDir /\ ev' = ev \o <<"rmtree", "result">>
       \/ UNCHANGED wd /\ ev' = ev \o <<"rmtree_raised", "result">>
    /\ result' =
          [experiment_id |-> experiment_id, status |-> "failed",
           start_time |-> start_time, end_time |-> end_time,
           deliverables_status |-> <<>>, error_message |-> StrOf(exc),
           artifacts_path |-> zip_path,
           training_stdout_path |-> stdout_ref,
           training_stderr_path |-> stderr_ref]
    /\ phases' = Append(phases, "failed")
    /\ rpc' = "finally"
    /\ UNCHANGED <<cfg, now, archives, experiment_id, start_time, cmd, exitcode,
                   exc, dstatus, zip_path, stdout_ref, stderr_ref, end_time,
                   outcome, runs>>

\* A mutation of the finally block: it does not remove the directory.
FinallyKeepsDir ==
    /\ rpc = "finally"
    /\ UNCHANGED <<wd, ev>>
    /\ outcome' = IF outcome = "raising" THEN "raised" ELSE "returned"
    /\ rpc' = "returned"
    /\ UNCHANGED <<cfg, now, archives, experiment_id, start_time, cmd, exitcode,
                   exc, dstatus, zip_path, stdout_ref, stderr_ref, end_time,
                   result, phases, runs>>

\* finally: if temp_path.exists(): shutil.rmtree(temp_path), in a try; then
\* the call returns its result (or the exception in flight leaves it).
Finally ==
    /\ rpc = "finally"
    /\ IF wd.exists
          THEN \/ wd' = NoDir /\ ev' = Append(ev, "rmtree")
               \/ UNCHANGED wd /\ ev' = Append(ev, "rmtree_raised")
          ELSE UNCHANGED <<wd, ev>>
    /\ outcome' = IF outcome = "raising" THEN "raised" ELSE "returned"
    /\ rpc' = "returned"
    /\ UNCHANGED <<cfg, now, archives, experiment_id, start_time, cmd, exitcode,
                   exc, dstatus, zip_path, stdout_ref, stderr_ref, end_time,
                   result, phases, runs>>

\* The steps of a call once it has started.
RunStep ==
    /\ \/ ScriptRender
       \/ ScriptSpawn
       \/ ChildExit
       \/ Validate
       \/ Package
       \/ Completed
       \/ ExceptPackage
       \/ ExceptRmtree
       \/ Finally
    /\ UNCHANGED <<storeVars, claimVars, cliVars, valVars, fsVars, updVars, ghVars>>

NextRun ==
    \/ RunStart /\ UNCHANGED <<storeVars, claimVars, cliVars, valVars, fsVars, updVars, ghVars>>
    \/ Tick /\ UNCHANGED <<storeVars, claimVars, cliVars, valVars, fsVars, updVars, ghVars>>
    \/ ScriptRender /\ UNCHANGED <<storeVars, claimVars, cliVars, valVars, fsVars, updVars, ghVars>>
    \/ ScriptSpawn /\ UNCHANGED <<storeVars, claimVars, cliVars, valVars, fsVars, updVars, ghVars>>
    \/ ChildExit /\ UNCHANGED <<storeVars, claimVars, cliVars, valVars, fsVars, updVars, ghVars>>
    \/ Validate /\ UNCHANGED <<storeVars, claimVars, cliVars, valVars, fsVars, updVars, ghVars>>
    \/ Package /\ UNCHANGED <<storeVars, claimVars, cliVars, valVars, fsVars, updVars, ghVars>>
    \/ Completed /\ UNCHANGED <<storeVars, claimVars, cliVars, valVars, fsVars, updVars, ghVars>>
    \/ ExceptPackage /\ UNCHANGED <<storeVars, claimVars, cliVars, valVars, fsVars, updVars, ghVars>>
    \/ ExceptRmtree /\ UNCHANGED <<storeVars, claimVars, cliVars, valVars, fsVars, updVars, ghVars>>
    \/ Finally /\ UNCHANGED <<storeVars, claimVars, cliVars, valVars, fsVars, updVars, ghVars>>

\* A fresh runner, nothing else started.
InitRunning ==
    /\ InitStoreBlank /\ InitClaim /\ InitValidateIdle /\ InitRun
    /\ InitFsReady /\ InitUpdate /\ InitGithub /\ InitCli

\* Sequential run_experiment calls of one runner.
SpecRun == InitRunning /\ [][NextRun]_vars

\* The same, with every started step of a call eventually taken: the code
\* is sequential, and the child process is taken to exit.
SpecRunFair == SpecRun /\ WF_vars(RunStep)

\* Deliverable lists whose targets overlap: two entries with one path, a
\* path that names a log file, a directory that holds another deliverable,
\* and the working directory itself (path ''), which holds the log files.
LogDeliverable ==
    [type |-> "log", path |-> PStdout, validation |-> "exists",
     required_keys |-> <<>>]
WeightsDeliverable ==
    [type |-> "model", path |-> POutW, validation |-> "exists",
     required_keys |-> <<>>]
RootDeliverable ==
    [type |-> "all", path |-> PRoot, validation |-> "exists",
     required_keys |-> <<>>]
OverlappingLists ==
    {<<MetricsDeliverable, MetricsDeliverable>>,
     <<LogDeliverable>>,
     <<OutputDeliverable, WeightsDeliverable>>,
     <<RootDeliverable>>}
ArchiveConfigs ==
    [script : {ListScript(<< <<"p">> >>)}, params : {<<>>},
     deliverables : DeliverableLists \cup OverlappingLists]

\* run_experiment is entered with one of these configs.
ArchiveRunStart == runs < MaxRuns /\ \E c \in ArchiveConfigs : RunEnter(c)

NextArchive ==
    \/ ArchiveRunStart /\ UNCHANGED <<storeVars, claimVars, cliVars, valVars, fsVars, updVars, ghVars>>
    \/ Tick /\ UNCHANGED <<storeVars, claimVars, cliVars, valVars, fsVars, updVars, ghVars>>
    \/ ScriptRender /\ UNCHANGED <<storeVars, claimVars, cliVars, valVars, fsVars, updVars, ghVars>>
    \/ ScriptSpawn /\ UNCHANGED <<storeVars, claimVars, cliVars, valVars, fsVars, updVars, ghVars>>
    \/ ChildExit /\ UNCHANGED <<storeVars, claimVars, cliVars, valVars, fsVars, updVars, ghVars>>
    \/ Validate /\ UNCHANGED <<storeVars, claimVars, cliVars, valVars, fsVars, updVars, ghVars>>
    \/ Package /\ UNCHANGED <<storeVars, claimVars, cliVars, valVars, fsVars, updVars, ghVars>>
    \/ Completed /\ UNCHANGED <<storeVars, claimVars, cliVars, valVars, fsVars, updVars, ghVars>>
    \/ ExceptPackage /\ UNCHANGED <<storeVars, claimVars, cliVars, valVars, fsVars, updVars, ghVars>>
    \/ ExceptRmtree /\ UNCHANGED <<storeVars, claimVars, cliVars, valVars, fsVars, updVars, ghVars>>
    \/ Finally /\ UNCHANGED <<storeVars, claimVars, cliVars, valVars, fsVars, updVars, ghVars>>

\* run_experiment calls of one runner on configs that include deliverable
\* lists with overlapping targets.
SpecArchive == InitRunning /\ [][NextArchive]_vars

(***************************************************************************)
(* The result store: ExperimentRunner.__init__ and save_result.            *)
(***************************************************************************)

\* A mutation of mkdir: without exist_ok an existing directory raises too.
MkdirNoExistOk(kind) ==
    IF kind = "absent" THEN [kind |-> "dir", ok |-> TRUE]
    ELSE [kind |-> kind, ok |-> FALSE]

\* dir_path.mkdir(parents=True, exist_ok=True): FileExistsError only when the
\* path is there and is not a directory.
Mkdir(kind) ==
    IF kind = "file" THEN [kind |-> kind, ok |-> FALSE]
    ELSE [kind |-> "dir", ok |-> TRUE]

\* The loop over the four directories, from the i-th on; it ends at the
\* first mkdir that raises.
RECURSIVE MkdirsFrom(_, _)
MkdirsFrom(d, i) ==
    IF i > Len(DirNames) THEN [dirs |-> d, ok |-> TRUE]
    ELSE LET m == Mkdir(d[DirNames[i]])
         IN IF m.ok
               THEN MkdirsFrom([d EXCEPT ![DirNames[i]] = m.kind], i + 1)
               ELSE [dirs |-> d, ok |-> FALSE]

HasRecords == \E set \in ResultSets : DOMAIN rfiles[set] # {}

\* ExperimentRunner(base_dir, github_config): the GitHub client, when one is
\* configured, is constructed first (its get_repo may raise), then the four
\* directories are made.
ConstructWith(gh) ==
    IF gh = "fails"
       THEN /\ ctor' = [ctor EXCEPT !.last = "raised", !.github = gh,
                                    !.records = HasRecords]
            /\ UNCHANGED dirs
       ELSE LET m == MkdirsFrom(dirs, 1)
            IN /\ dirs' = m.dirs
               /\ ctor' = [last |-> IF m.ok THEN "returned" ELSE "raised",
                           github |-> gh,
                           runner |-> ctor.runner \/ m.ok,
                           records |-> HasRecords]

\* A caller constructs a runner, with or without a GitHub configuration.
Construct ==
    /\ \E gh \in {"none", "ok", "fails"} : ConstructWith(gh)
    /\ UNCHANGED <<rfiles, sarg, sret>>

\* A mutation of the choice of the directory: always failed/.
ResultPathFailed(r) == [set |-> "failed", id |-> r.experiment_id.second]

\* result_path: completed_dir for status 'completed', failed_dir otherwise,
\* and the file name f"{result.experiment_id}.json".
ResultPath(r) ==
    [set |-> IF r.status = "completed" THEN "completed" ELSE "failed",
     id |-> r.experiment_id.second]

\* A mutation of save_result: the record of the other result set is removed.
SaveResultMoves ==
    /\ ctor.runner
    /\ \E r \in SavedResults :
          /\ sarg' = r
          /\ rfiles' = [set \in ResultSets |->
                          IF set = ResultPath(r).set
                             THEN Put(rfiles, set, ResultPath(r).id, Record(r))[set]
                             ELSE [t \in DOMAIN rfiles[set] \ {ResultPath(r).id} |->
                                      rfiles[set][t]]]
          /\ sret' = "returned"
    /\ UNCHANGED <<ctor, dirs>>

\* runner.save_result(result): open(result_path, 'w') may raise, and so may
\* json.dump once the file has been opened (and truncated).
SaveResultOf(r) ==
    /\ sarg' = r
    /\ \/ /\ rfiles' = Put(rfiles, ResultPath(r).set, ResultPath(r).id, Record(r))
          /\ sret' = "returned"
       \/ /\ UNCHANGED rfiles
          /\ sret' = "raised"
       \/ /\ rfiles' = Put(rfiles, ResultPath(r).set, ResultPath(r).id, Truncated)
          /\ sret' = "raised"

\* A caller that holds a runner saves a Result through it.
SaveResult ==
    /\ ctor.runner
    /\ \E r \in SavedResults : SaveResultOf(r)
    /\ UNCHANGED <<ctor, dirs>>

NextStore ==
    \/ Construct /\ UNCHANGED <<storeVars, claimVars, cliVars, valVars, runVars, updVars, ghVars>>
    \/ SaveResult /\ UNCHANGED <<storeVars, claimVars, cliVars, valVars, runVars, updVars, ghVars>>

\* Any base path, nothing else started.
InitStoring ==
    /\ InitStoreBlank /\ InitClaim /\ InitValidateIdle /\ InitRun
    /\ InitFs /\ InitUpdate /\ InitGithub /\ InitCli

\* Runners constructed on one base path, and the results saved through them.
SpecStore == InitStoring /\ [][NextStore]_vars

(***************************************************************************)
(* GitHubClient.update_experiment_status and add_experiment_comment, one   *)
(* action per store call.                                                  *)
(***************************************************************************)

\* The call is entered with its arguments.
UpdateInvoke(op, i, status, comment, caller) ==
    /\ uarg' = [op |-> op, issue |-> i, status |-> status, comment |-> comment,
                caller |-> caller]
    /\ upc' = "get_issue"
    /\ utodo' = {}
    /\ uret' = "none"
    /\ ufailed' = {}
    /\ upre' = [ilabels |-> ilabels, comments |-> comments]

\* A caller invokes update_experiment_status(issue_number, status, comment).
UpdateCall ==
    /\ upc \in {"idle", "done"}
    /\ gpc = "idle"
    /\ ucalls < MaxUpdates
    /\ \E i \in Issues, st \in StatusLabels,
          c \in {NoComment, EmptyComment, <<"note">>} :
          UpdateInvoke("update", i, st, c, "caller")
    /\ ucalls' = ucalls + 1
    /\ UNCHANGED storeVars

\* A caller invokes add_experiment_comment(issue_number, comment).
CommentCall ==
    /\ upc \in {"idle", "done"}
    /\ gpc = "idle"
    /\ ucalls < MaxUpdates
    /\ \E i \in Issues : UpdateInvoke("comment", i, "", <<"note">>, "caller")
    /\ ucalls' = ucalls + 1
    /\ UNCHANGED storeVars

\* A mutation of the handler: the exception leaves the call.
UpdateHandlerPropagates(call) ==
    /\ ufailed' = ufailed \cup {call}
    /\ upc' = "done"
    /\ uret' = "raised"
    /\ UNCHANGED <<storeVars, uarg, utodo, upre, ucalls>>

\* except Exception as e: print(...) -- the call returns None.
UpdateHandler(call) ==
    /\ ufailed' = ufailed \cup {call}
    /\ upc' = "done"
    /\ uret' = "returned"
    /\ UNCHANGED <<storeVars, uarg, utodo, upre, ucalls>>

\* issue = self.repo.get_issue(issue_number): issue.labels is the list of
\* labels at this moment; the loop visits those that are status labels.
UpdateGetIssue ==
    /\ upc = "get_issue"
    /\ \/ /\ utodo' = IF uarg.op = "update"
                         THEN ilabels[uarg.issue] \cap StatusLabels ELSE {}
          /\ upc' = IF uarg.op = "comment" THEN "comment"
                    ELSE IF ilabels[uarg.issue] \cap StatusLabels = {} THEN "get_label"
                    ELSE "labels"
          /\ UNCHANGED <<storeVars, uarg, uret, ufailed, upre, ucalls>>
       \/ UpdateHandler("get_issue")

\* A mutation of the loop: the status labels are left on the item.
UpdateRemoveLabelSkips ==
    /\ upc = "labels"
    /\ \E l \in utodo :
          /\ utodo' = utodo \ {l}
          /\ upc' = IF utodo = {l} THEN "get_label" ELSE "labels"
          /\ UNCHANGED <<storeVars, uarg, uret, ufailed, upre, ucalls>>

\* issue.remove_from_labels(label) for the next status label of the list; it
\* raises for a label that is no longer on the item.
UpdateRemoveLabel ==
    /\ upc = "labels"
    /\ \E l \in utodo :
          \/ /\ l \in ilabels[uarg.issue]
             /\ ilabels' = [ilabels EXCEPT ![uarg.issue] = @ \ {l}]
             /\ utodo' = utodo \ {l}
             /\ upc' = IF utodo = {l} THEN "get_label" ELSE "labels"
             /\ UNCHANGED <<assignee, rlabels, comments, uarg, uret, ufailed,
                            upre, ucalls>>
          \/ UpdateHandler("remove_from_labels")

\* status_label = self.repo.get_label(status); a failure, of whatever kind,
\* is caught by the bare except.
UpdateGetLabel ==
    /\ upc = "get_label"
    /\ \/ /\ uarg.status \in DOMAIN rlabels
          /\ upc' = "add_label"
          /\ UNCHANGED ufailed
       \/ /\ upc' = "create_label"
          /\ ufailed' = ufailed \cup {"get_label"}
    /\ UNCHANGED <<storeVars, uarg, utodo, uret, upre, ucalls>>

\* self.repo.create_label(status, color_map.get(status, "000000")): it raises
\* for a label the repository already has.
UpdateCreateLabel ==
    /\ upc = "create_label"
    /\ \/ /\ uarg.status \notin DOMAIN rlabels
          /\ rlabels' = [l \in DOMAIN rlabels \cup {uarg.status} |->
                            IF l = uarg.status THEN ColorMap(l) ELSE rlabels[l]]
          /\ upc' = "get_label2"
          /\ UNCHANGED <<assignee, ilabels, comments, uarg, utodo, uret, ufailed,
                         upre, ucalls>>
       \/ UpdateHandler("create_label")

\* status_label = self.repo.get_label(status), inside the bare except.
UpdateGetLabel2 ==
    /\ upc = "get_label2"
    /\ \/ /\ uarg.status \in DOMAIN rlabels
          /\ upc' = "add_label"
          /\ UNCHANGED <<storeVars, uarg, utodo, uret, ufailed, upre, ucalls>>
       \/ UpdateHandler("get_label2")

\* issue.add_to_labels(status_label); without a comment the call returns.
UpdateAddLabel ==
    /\ upc = "add_label"
    /\ \/ /\ ilabels' = [ilabels EXCEPT ![uarg.issue] = @ \cup {uarg.status}]
          /\ IF Truthy(uarg.comment)
                THEN upc' = "comment" /\ UNCHANGED uret
                ELSE upc' = "done" /\ uret' = "returned"
          /\ UNCHANGED <<assignee, rlabels, comments, uarg, utodo, ufailed, upre,
                         ucalls>>
       \/ UpdateHandler("add_to_labels")

\* issue.create_comment(comment), the last call of both operations.
UpdateComment ==
    /\ upc = "comment"
    /\ \/ /\ comments' = [comments EXCEPT ![uarg.issue] = Append(@, uarg.comment)]
          /\ upc' = "done"
          /\ uret' = "returned"
          /\ UNCHANGED <<assignee, ilabels, rlabels, uarg, utodo, ufailed, upre,
                         ucalls>>
       \/ UpdateHandler("create_comment")

NextUpdate ==
    \/ UpdateCall /\ UNCHANGED <<claimVars, cliVars, valVars, runVars, fsVars, ghVars>>
    \/ CommentCall /\ UNCHANGED <<claimVars, cliVars, valVars, runVars, fsVars, ghVars>>
    \/ UpdateGetIssue /\ UNCHANGED <<claimVars, cliVars, valVars, runVars, fsVars, ghVars>>
    \/ UpdateRemoveLabel /\ UNCHANGED <<claimVars, cliVars, valVars, runVars, fsVars, ghVars>>
    \/ UpdateGetLabel /\ UNCHANGED <<claimVars, cliVars, valVars, runVars, fsVars, ghVars>>
    \/ UpdateCreateLabel /\ UNCHANGED <<claimVars, cliVars, valVars, runVars, fsVars, ghVars>>
    \/ UpdateGetLabel2 /\ UNCHANGED <<claimVars, cliVars, valVars, runVars, fsVars, ghVars>>
    \/ UpdateAddLabel /\ UNCHANGED <<claimVars, cliVars, valVars, runVars, fsVars, ghVars>>
    \/ UpdateComment /\ UNCHANGED <<claimVars, cliVars, valVars, runVars, fsVars, ghVars>>

\* Any labelled tracker, nothing else started.
InitUpdating ==
    /\ InitStoreLabelled /\ InitClaim /\ InitValidateIdle /\ InitRun
    /\ InitFsReady /\ InitUpdate /\ InitGithub /\ InitCli

\* One caller at a time updating the status of items and commenting on them.
SpecUpdate == InitUpdating /\ [][NextUpdate]_vars

\* The steps of claim_experiment and of update_experiment_status together.
NextLabels ==
    \/ \E w \in Workers :
          \/ ClaimCall(w) /\ UNCHANGED <<valVars, runVars, fsVars, updVars, ghVars, cliVars>>
          \/ ClaimGetIssue(w) /\ UNCHANGED <<valVars, runVars, fsVars, updVars, ghVars, cliVars>>
          \/ ClaimGetUser(w) /\ UNCHANGED <<valVars, runVars, fsVars, updVars, ghVars, cliVars>>
          \/ ClaimEdit(w) /\ UNCHANGED <<valVars, runVars, fsVars, updVars, ghVars, cliVars>>
          \/ ClaimGetLabel(w) /\ UNCHANGED <<valVars, runVars, fsVars, updVars, ghVars, cliVars>>
          \/ ClaimAddLabel(w) /\ UNCHANGED <<valVars, runVars, fsVars, updVars, ghVars, cliVars>>
          \/ ClaimCreateLabel(w) /\ UNCHANGED <<valVars, runVars, fsVars, updVars, ghVars, cliVars>>
          \/ ClaimGetLabel2(w) /\ UNCHANGED <<valVars, runVars, fsVars, updVars, ghVars, cliVars>>
          \/ ClaimAddLabel2(w) /\ UNCHANGED <<valVars, runVars, fsVars, updVars, ghVars, cliVars>>
          \/ ClaimComment_(w) /\ UNCHANGED <<valVars, runVars, fsVars, updVars, ghVars, cliVars>>
    \/ (UpdateCall /\ uarg'.comment = NoComment)
          /\ UNCHANGED <<claimVars, cliVars, valVars, runVars, fsVars, ghVars>>
    \/ UpdateGetIssue /\ UNCHANGED <<claimVars, cliVars, valVars, runVars, fsVars, ghVars>>
    \/ UpdateRemoveLabel /\ UNCHANGED <<claimVars, cliVars, valVars, runVars, fsVars, ghVars>>
    \/ UpdateGetLabel /\ UNCHANGED <<claimVars, cliVars, valVars, runVars, fsVars, ghVars>>
    \/ UpdateCreateLabel /\ UNCHANGED <<claimVars, cliVars, valVars, runVars, fsVars, ghVars>>
    \/ UpdateGetLabel2 /\ UNCHANGED <<claimVars, cliVars, valVars, runVars, fsVars, ghVars>>
    \/ UpdateAddLabel /\ UNCHANGED <<claimVars, cliVars, valVars, runVars, fsVars, ghVars>>

\* A tracker nobody has touched, every worker idle, no update started.
InitLabels ==
    /\ InitStoreBlank /\ InitClaim /\ InitValidateIdle /\ InitRun
    /\ InitFsReady /\ InitUpdate /\ InitGithub /\ InitCli

\* Workers claiming items of one shared tracker while a caller updates the
\* status of items (without a comment, so the call ends with add_to_labels);
\* no item is assigned or carries a label at the start.
SpecLabels == InitLabels /\ [][NextLabels]_vars

(***************************************************************************)
(* ExperimentRunner.run_github_experiment: the run of a work item, with    *)
(* its status updates.  The calls it makes are the actions above.          *)
(***************************************************************************)

\* The entries of glog: a status update (failed: its handler ran, known once
\* it has returned) and the run_experiment call.
LogUpdate(status, comment) ==
    [kind |-> "update", status |-> status, comment |-> comment, failed |-> FALSE]
LogRun == [kind |-> "run", status |-> "", comment |-> NoComment, failed |-> FALSE]
\* glog once the update entered last has returned.
Returned(log) ==
    [log EXCEPT ![Len(log)].failed = ~(ufailed \subseteq {"get_label"})]

\* The ExperimentConfigs _config_from_github_issue makes: the command of the
\* metadata block (a string or a list, '' without one), no training_config
\* and no deliverables.
GithubConfigs ==
    [script : {StrScript(<<>>), StrScript(<<"p", " ", "a">>), ListScript(<< <<"p">> >>)},
     params : {<<>>}, deliverables : {<<>>}]

\* f"Experiment completed successfully. Artifacts: {result.artifacts_path}"
CompletedComment(r) ==
    <<"Experiment completed successfully. Artifacts: ",
      r.artifacts_path.dir, r.artifacts_path.id.prefix, r.artifacts_path.suffix>>
\* f"Experiment failed: {result.error_message}"
FailedComment(r) == <<"Experiment failed: ", r.error_message.text>>
\* f"Experiment execution failed: {str(e)}"
ExecutionFailedComment == <<"Experiment execution failed: ", "exception">>

\* The run_github command constructs a runner and invokes
\* run_github_experiment(issue_number) once; without a GitHub client the
\* ValueError leaves the call at once.
GithubCall ==
    /\ gpc = "idle"
    /\ rpc = "idle"
    /\ upc = "idle"
    /\ \E i \in Issues, client \in BOOLEAN :
          /\ gissue' = i
          /\ IF client THEN gpc' = "get" /\ gret' = "none"
                       ELSE gpc' = "done" /\ gret' = "raised"
    /\ gcfg' = NoConfig
    /\ glog' = <<>>

\* experiment_issue = self.get_github_experiment(issue_number) and
\* config = self._config_from_github_issue(experiment_issue): the store call
\* may raise, and so does metadata that is not a mapping.
GithubGet ==
    /\ gpc = "get"
    /\ \/ /\ \E c \in GithubConfigs : gcfg' = c
          /\ gpc' = "update_start"
          /\ UNCHANGED gret
       \/ /\ gpc' = "done"
          /\ gret' = "raised"
          /\ UNCHANGED gcfg
    /\ UNCHANGED <<gissue, glog>>

\* update_experiment_status(issue_number, "in-progress", "Starting ...")
GithubUpdateStart ==
    /\ gpc = "update_start"
    /\ UpdateInvoke("update", gissue, "in-progress",
                    <<"Starting experiment execution...">>, "github")
    /\ glog' = Append(glog, LogUpdate("in-progress", <<"Starting experiment execution...">>))
    /\ gpc' = "wait_start"
    /\ UNCHANGED <<gissue, gcfg, gret, ucalls, storeVars, runVars>>

\* The update has returned: result = self.run_experiment(config) begins.  (An
\* exception of the update, which is made outside the try, would leave the
\* call here.)
GithubRunExperiment ==
    /\ gpc = "wait_start"
    /\ upc = "done"
    /\ IF uret = "raised"
          THEN /\ gpc' = "done"
               /\ gret' = "raised"
               /\ glog' = Returned(glog)
               /\ UNCHANGED runVars
          ELSE /\ RunStart
               /\ cfg' = gcfg
               /\ gpc' = "running"
               /\ glog' = Append(Returned(glog), LogRun)
               /\ UNCHANGED gret
    /\ UNCHANGED <<gissue, gcfg, storeVars, updVars>>

\* A mutation of the terminal update: the label is always `completed`.
GithubUpdateEndCompleted ==
    /\ gpc = "running"
    /\ rpc = "returned"
    /\ UpdateInvoke("update", gissue, "completed", CompletedComment(result), "github")
    /\ glog' = Append(glog, LogUpdate("completed", CompletedComment(result)))
    /\ gpc' = "wait_end"
    /\ UNCHANGED <<gissue, gcfg, gret, ucalls, storeVars, runVars>>

\* run_experiment has returned (or raised): the status update of the result,
\* or the one of the except branch.
GithubUpdateEnd ==
    /\ gpc = "running"
    /\ rpc = "returned"
    /\ IF outcome = "raised"
          THEN /\ UpdateInvoke("update", gissue, "failed", ExecutionFailedComment, "github")
               /\ glog' = Append(glog, LogUpdate("failed", ExecutionFailedComment))
               /\ gpc' = "wait_except"
          ELSE IF result.status = "completed"
          THEN /\ UpdateInvoke("update", gissue, "completed", CompletedComment(result), "github")
               /\ glog' = Append(glog, LogUpdate("completed", CompletedComment(result)))
               /\ gpc' = "wait_end"
          ELSE /\ UpdateInvoke("update", gissue, "failed", FailedComment(result), "github")
               /\ glog' = Append(glog, LogUpdate("failed", FailedComment(result)))
               /\ gpc' = "wait_end"
    /\ UNCHANGED <<gissue, gcfg, gret, ucalls, storeVars, runVars>>

\* The terminal update has returned: return result.  (An exception of the
\* update inside the try would be caught by the except branch, which updates
\* the status to `failed` and raises again.)
GithubReturn ==
    /\ gpc \in {"wait_end", "wait_except"}
    /\ upc = "done"
    /\ IF gpc = "wait_end" /\ uret = "raised"
          THEN /\ UpdateInvoke("update", gissue, "failed", ExecutionFailedComment, "github")
               /\ glog' = Append(Returned(glog), LogUpdate("failed", ExecutionFailedComment))
               /\ gpc' = "wait_except"
               /\ UNCHANGED <<gret, ucalls>>
          ELSE /\ gpc' = "done"
               /\ gret' = IF gpc = "wait_except" THEN "raised" ELSE "returned"
               /\ glog' = Returned(glog)
               /\ UNCHANGED updVars
    /\ UNCHANGED <<gissue, gcfg, storeVars, runVars>>

\* The steps of a call once it has started.
GithubStep ==
    \/ GithubGet /\ UNCHANGED <<storeVars, claimVars, cliVars, valVars, runVars, fsVars, updVars>>
    \/ (GithubUpdateStart \/ GithubRunExperiment \/ GithubUpdateEnd \/ GithubReturn)
          /\ UNCHANGED <<claimVars, cliVars, valVars, fsVars>>
    \/ (UpdateGetIssue \/ UpdateRemoveLabel \/ UpdateGetLabel \/ UpdateCreateLabel
           \/ UpdateGetLabel2 \/ UpdateAddLabel \/ UpdateComment)
          /\ UNCHANGED <<claimVars, cliVars, valVars, runVars, fsVars, ghVars>>
    \/ RunStep

NextGithub ==
    \/ UpdateCall /\ UNCHANGED <<claimVars, cliVars, valVars, runVars, fsVars, ghVars>>
    \/ CommentCall /\ UNCHANGED <<claimVars, cliVars, valVars, runVars, fsVars, ghVars>>
    \/ GithubCall /\ UNCHANGED <<storeVars, claimVars, cliVars, valVars, runVars, fsVars, updVars>>
    \/ GithubGet /\ UNCHANGED <<storeVars, claimVars, cliVars, valVars, runVars, fsVars, updVars>>
    \/ GithubUpdateStart /\ UNCHANGED <<claimVars, cliVars, valVars, fsVars>>
    \/ GithubRunExperiment /\ UNCHANGED <<claimVars, cliVars, valVars, fsVars>>
    \/ GithubUpdateEnd /\ UNCHANGED <<claimVars, cliVars, valVars, fsVars>>
    \/ GithubReturn /\ UNCHANGED <<claimVars, cliVars, valVars, fsVars>>
    \/ UpdateGetIssue /\ UNCHANGED <<claimVars, cliVars, valVars, runVars, fsVars, ghVars>>
    \/ UpdateRemoveLabel /\ UNCHANGED <<claimVars, cliVars, valVars, runVars, fsVars, ghVars>>
    \/ UpdateGetLabel /\ UNCHANGED <<claimVars, cliVars, valVars, runVars, fsVars, ghVars>>
    \/ UpdateCreateLabel /\ UNCHANGED <<claimVars, cliVars, valVars, runVars, fsVars, ghVars>>
    \/ UpdateGetLabel2 /\ UNCHANGED <<claimVars, cliVars, valVars, runVars, fsVars, ghVars>>
    \/ UpdateAddLabel /\ UNCHANGED <<claimVars, cliVars, valVars, runVars, fsVars, ghVars>>
    \/ UpdateComment /\ UNCHANGED <<claimVars, cliVars, valVars, runVars, fsVars, ghVars>>
    \/ ScriptRender /\ UNCHANGED <<storeVars, claimVars, cliVars, valVars, fsVars, updVars, ghVars>>
    \/ ScriptSpawn /\ UNCHANGED <<storeVars, claimVars, cliVars, valVars, fsVars, updVars, ghVars>>
    \/ ChildExit /\ UNCHANGED <<storeVars, claimVars, cliVars, valVars, fsVars, updVars, ghVars>>
    \/ Validate /\ UNCHANGED <<storeVars, claimVars, cliVars, valVars, fsVars, updVars, ghVars>>
    \/ Package /\ UNCHANGED <<storeVars, claimVars, cliVars, valVars, fsVars, updVars, ghVars>>
    \/ Completed /\ UNCHANGED <<storeVars, claimVars, cliVars, valVars, fsVars, updVars, ghVars>>
    \/ ExceptPackage /\ UNCHANGED <<storeVars, claimVars, cliVars, valVars, fsVars, updVars, ghVars>>
    \/ ExceptRmtree /\ UNCHANGED <<storeVars, claimVars, cliVars, valVars, fsVars, updVars, ghVars>>
    \/ Finally /\ UNCHANGED <<storeVars, claimVars, cliVars, valVars, fsVars, updVars, ghVars>>

\* A tracker whose items are all unclaimed or all claimed (by alice, with the
\* label of the claim); the repository may hold the other status labels.
InitStoreItems ==
    /\ \E claimed \in BOOLEAN :
          /\ assignee = [i \in Issues |-> IF claimed THEN "alice" ELSE None]
          /\ ilabels = [i \in Issues |->
                           IF claimed THEN {ExperimentLabel, ClaimedLabel}
                           ELSE {ExperimentLabel}]
          /\ \E more \in {{}, StatusLabels} :
                rlabels = [l \in more \cup UNION Range(ilabels) |->
                              IF l = ClaimedLabel THEN ClaimedColor ELSE OtherColor]
    /\ comments = [i \in Issues |-> <<>>]

\* Such a tracker and a fresh runner.
InitGithubRun ==
    /\ InitStoreItems /\ InitClaim /\ InitValidateIdle /\ InitRun
    /\ InitFsReady /\ InitUpdate /\ InitGithub /\ InitCli

\* The GitHub client of one runner: the caller updates and comments on items
\* itself, or makes one run_github_experiment call (within one second of the
\* clock, which only the ids and times of run_experiment read).
SpecGithub == InitGithubRun /\ [][NextGithub]_vars

\* The same, with every started step eventually taken: the code is
\* sequential, the store answers or fails, and the child is taken to exit.
SpecGithubFair == SpecGithub /\ WF_vars(GithubStep)

(***************************************************************************)
(* The commands of cli/__init__.py that run experiments: run, batch and    *)
(* run_github.  One command is one process; its runner calls are the       *)
(* actions above.                                                          *)
(***************************************************************************)

\* The ExperimentConfigs load_experiment_config reads from the config files:
\* one without a script, one whose script writes metrics.json.
CliConfigs ==
    {[script |-> StrScript(<<>>), params |-> <<>>, deliverables |-> <<>>],
     [script |-> StrScript(<<"p", " ", "a">>), params |-> <<>>,
      deliverables |-> <<MetricsDeliverable>>]}

\* The entry of ksaves for a Result passed to save_result.
Saved(r) == [experiment_id |-> r.experiment_id, status |-> r.status]

\* The command goes on to its next config file, or ends after the last.
CliAdvance ==
    /\ ktodo' = ktodo - 1
    /\ kpc' = IF ktodo > 1 THEN "load" ELSE "done"

\* run: runner = ExperimentRunner(base_dir), outside the try of the command.
CliRun ==
    /\ kpc = "idle"
    /\ kcmd' = "run"
    /\ ConstructWith("none")
    /\ IF ctor'.last = "returned"
          THEN kpc' = "load" /\ ktodo' = 1
          ELSE kpc' = "done" /\ ktodo' = 0
    /\ UNCHANGED <<rfiles, sarg, sret, ksaves>>

\* batch: the config files of the directory are listed; without any the
\* command returns, otherwise the runner is constructed for the loop.
CliBatch ==
    /\ kpc = "idle"
    /\ kcmd' = "batch"
    /\ \E n \in 0..MaxBatch :
          IF n = 0
             THEN /\ kpc' = "done"
                  /\ ktodo' = 0
                  /\ UNCHANGED <<ctor, dirs>>
             ELSE /\ ConstructWith("none")
                  /\ IF ctor'.last = "returned"
                        THEN kpc' = "load" /\ ktodo' = n
                        ELSE kpc' = "done" /\ ktodo' = 0
    /\ UNCHANGED <<rfiles, sarg, sret, ksaves>>

\* config = runner.load_experiment_config(config_file), which may raise (the
\* except of the command: run exits, batch goes on), and the call of
\* result = runner.run_experiment(config).
CliLoad ==
    /\ kpc = "load"
    /\ \/ /\ \E c \in CliConfigs : RunEnter(c)
          /\ kpc' = "run"
          /\ UNCHANGED ktodo
       \/ /\ CliAdvance
          /\ UNCHANGED runVars
    /\ UNCHANGED <<kcmd, ksaves>>

\* run_experiment has returned: runner.save_result(result), then the report
\* of the status.  (An exception of run_experiment would skip the save.)
CliSave ==
    /\ kpc = "run"
    /\ rpc = "returned"
    /\ IF outcome = "raised"
          THEN UNCHANGED <<fsVars, ksaves>>
          ELSE /\ SaveResultOf(result)
               /\ ksaves' = Append(ksaves, Saved(result))
               /\ UNCHANGED <<ctor, dirs>>
    /\ CliAdvance
    /\ UNCHANGED kcmd

\* run_github: without a token the command exits; otherwise the runner is
\* constructed with the GitHub configuration and
\* result = runner.run_github_experiment(issue_number) is called.
CliRunGithub ==
    /\ kpc = "idle"
    /\ kcmd' = "run_github"
    /\ \/ /\ kpc' = "done"
          /\ UNCHANGED <<ctor, dirs, ghVars>>
       \/ \E gh \in {"ok", "fails"} :
             /\ ConstructWith(gh)
             /\ IF ctor'.last = "returned"
                   THEN GithubCall /\ gpc' = "get" /\ kpc' = "github"
                   ELSE kpc' = "done" /\ UNCHANGED ghVars
    /\ UNCHANGED <<rfiles, sarg, sret, ktodo, ksaves>>

\* run_github_experiment has returned or raised: the command reports the
\* status of the result, or the error, and ends.
CliGithubExit ==
    /\ kpc = "github"
    /\ gpc = "done"
    /\ kpc' = "done"
    /\ UNCHANGED <<kcmd, ktodo, ksaves>>

NextCli ==
    \/ CliRun /\ UNCHANGED <<storeVars, claimVars, valVars, runVars, updVars, ghVars>>
    \/ CliBatch /\ UNCHANGED <<storeVars, claimVars, valVars, runVars, updVars, ghVars>>
    \/ CliRunGithub /\ UNCHANGED <<storeVars, claimVars, valVars, runVars, updVars>>
    \/ CliLoad /\ UNCHANGED <<storeVars, claimVars, valVars, fsVars, updVars, ghVars>>
    \/ CliSave /\ UNCHANGED <<storeVars, claimVars, valVars, runVars, updVars, ghVars>>
    \/ CliGithubExit /\ UNCHANGED <<storeVars, claimVars, valVars, runVars, fsVars, updVars, ghVars>>
    \/ Tick /\ UNCHANGED <<storeVars, claimVars, cliVars, valVars, fsVars, updVars, ghVars>>
    \/ GithubGet /\ UNCHANGED <<storeVars, claimVars, cliVars, valVars, runVars, fsVars, updVars>>
    \/ GithubUpdateStart /\ UNCHANGED <<claimVars, cliVars, valVars, fsVars>>
    \/ GithubRunExperiment /\ UNCHANGED <<claimVars, cliVars, valVars, fsVars>>
    \/ GithubUpdateEnd /\ UNCHANGED <<claimVars, cliVars, valVars, fsVars>>
    \/ GithubReturn /\ UNCHANGED <<claimVars, cliVars, valVars, fsVars>>
    \/ UpdateGetIssue /\ UNCHANGED <<claimVars, cliVars, valVars, runVars, fsVars, ghVars>>
    \/ UpdateRemoveLabel /\ UNCHANGED <<claimVars, cliVars, valVars, runVars, fsVars, ghVars>>
    \/ UpdateGetLabel /\ UNCHANGED <<claimVars, cliVars, valVars, runVars, fsVars, ghVars>>
    \/ UpdateCreateLabel /\ UNCHANGED <<claimVars, cliVars, valVars, runVars, fsVars, ghVars>>
    \/ UpdateGetLabel2 /\ UNCHANGED <<claimVars, cliVars, valVars, runVars, fsVars, ghVars>>
    \/ UpdateAddLabel /\ UNCHANGED <<claimVars, cliVars, valVars, runVars, fsVars, ghVars>>
    \/ UpdateComment /\ UNCHANGED <<claimVars, cliVars, valVars, runVars, fsVars, ghVars>>
    \/ ScriptRender /\ UNCHANGED <<storeVars, claimVars, cliVars, valVars, fsVars, updVars, ghVars>>
    \/ ScriptSpawn /\ UNCHANGED <<storeVars, claimVars, cliVars, valVars, fsVars, updVars, ghVars>>
    \/ ChildExit /\ UNCHANGED <<storeVars, claimVars, cliVars, valVars, fsVars, updVars, ghVars>>
    \/ Validate /\ UNCHANGED <<storeVars, claimVars, cliVars, valVars, fsVars, updVars, ghVars>>
    \/ Package /\ UNCHANGED <<storeVars, claimVars, cliVars, valVars, fsVars, updVars, ghVars>>
    \/ Completed /\ UNCHANGED <<storeVars, claimVars, cliVars, valVars, fsVars, updVars, ghVars>>
    \/ ExceptPackage /\ UNCHANGED <<storeVars, claimVars, cliVars, valVars, fsVars, updVars, ghVars>>
    \/ ExceptRmtree /\ UNCHANGED <<storeVars, claimVars, cliVars, valVars, fsVars, updVars, ghVars>>
    \/ Finally /\ UNCHANGED <<storeVars, claimVars, cliVars, valVars, fsVars, updVars, ghVars>>

\* A tracker whose items are claimed and whose repository holds no label
\* but theirs, a base path without an artifacts directory (fresh, or with a
\* regular file in the way), no command started.
InitCommand ==
    /\ InitStoreItems /\ InitClaim /\ InitValidateIdle /\ InitRun
    /\ InitFs /\ InitUpdate /\ InitGithub /\ InitCli
    /\ \A i \in Issues : assignee[i] = "alice"
    /\ DOMAIN rlabels = {ExperimentLabel, ClaimedLabel}
    /\ dirs["artifacts"] = "absent"

\* One command of the command line, from its start to its exit.
SpecCli == InitCommand /\ [][NextCli]_vars

(***************************************************************************)
(* The claim protocol: properties.                                         *)
(***************************************************************************)

\* The calls of claim_experiment whose failure the inner `except:` catches.
InnerTry == {"get_label", "add_label"}

\* C1: when claim_experiment is invoked concurrently by two workers on the
\* same unassigned item with two different claimants, at most one of the two
\* invocations returns True.
C1_AtMostOneClaimReturnsTrue ==
    \A w1, w2 \in Workers :
        (/\ w1 # w2
         /\ cpc[w1] = "done" /\ cpc[w2] = "done"
         /\ carg[w1].issue = carg[w2].issue
         /\ carg[w1].who # carg[w2].who
         /\ csnap[w1] = None /\ csnap[w2] = None)
        => ~(cret[w1] = "true" /\ cret[w2] = "true")

\* C2: an invocation that fetched an item which already has an assignee
\* returns False and makes no mutating store call; the step that fetches
\* such an item leaves assignee, labels and comments of the store unchanged.
C2_AssignedItemUntouched ==
    /\ [](\A w \in Workers :
            (cpc[w] \notin {"idle", "get_issue"} /\ csnap[w] # None)
            => (cpc[w] = "done" /\ cret[w] = "false" /\ cdid[w] = {}))
    /\ [][\A w \in Workers :
            (/\ cpc[w] = "get_issue"
             /\ cpc'[w] # "get_issue"
             /\ assignee[carg[w].issue] # None)
            => (/\ storeVars' = storeVars
                /\ cpc'[w] = "done"
                /\ cret'[w] = "false")]_vars

\* A second claim (the first one succeeded) has fetched the assigned item and
\* has returned.
C2_Witness ==
    \E w \in Workers :
        /\ cpc[w] = "done"
        /\ csnap[w] # None
        /\ cret[w] = "false"
        /\ ccalls = 2
        /\ ClaimComment(csnap[w]) \in Range(comments[carg[w].issue])

\* C3: claim_experiment returns True only if this invocation fetched the item
\* with no assignee, assigned the claimant, attached the `claimed` label (a
\* label of the repository, created by this invocation with the fixed color
\* when its lookup failed) and appended the audit comment naming the claimant.
C3_TrueOnlyIfAllSucceeded ==
    \A w \in Workers :
        cret[w] = "true" =>
            /\ csnap[w] = None
            /\ cfailed[w] \subseteq InnerTry
            /\ {"assign", "attach", "comment"} \subseteq cdid[w]
            /\ (cfailed[w] # {} => "create" \in cdid[w])
            /\ ClaimedLabel \in DOMAIN rlabels
            /\ ("create" \in cdid[w] => rlabels[ClaimedLabel] = ClaimedColor)
            /\ ClaimedLabel \in ilabels[carg[w].issue]
            /\ ClaimComment(carg[w].who) \in Range(comments[carg[w].issue])

\* An invocation returned True after creating the label itself.
C3_Witness ==
    \E w \in Workers :
        /\ cpc[w] = "done"
        /\ cret[w] = "true"
        /\ "create" \in cdid[w]
        /\ assignee[carg[w].issue] = carg[w].who

PackageAttempts == {i \in DOMAIN ev : ev[i] \in {"package", "package_raised"}}
RmtreeAttempts == {i \in DOMAIN ev : ev[i] \in {"rmtree", "rmtree_raised"}}
FirstOf(S) == CHOOSE i \in S : \A j \in S : i <= j
LastOf(S) == CHOOSE i \in S : \A j \in S : j <= i
FirstPackageOk == PackageAttempts # {} /\ ev[FirstOf(PackageAttempts)] = "package"
LastPackageOk == PackageAttempts # {} /\ ev[LastOf(PackageAttempts)] = "package"
ChildExited == exitcode # NoExit
Terminal == {"completed", "failed"}

\* The archive at a recorded artifacts_path.
ArchiveAt(path) == archives[path.id.second]

C5_Outcome ==
    (rpc = "returned" /\ cfg.deliverables = <<>> /\ ChildExited) =>
        /\ outcome = "returned"
        /\ result.status \in Terminal
        /\ (result.status = "completed") = (exitcode = 0 /\ FirstPackageOk)
        /\ (exitcode # 0 => result.status = "failed")

\* C5: for a config with a non-empty command and no deliverables, a call
\* whose child process exits returns, with status `completed` iff the exit
\* code was 0 and packaging succeeded, and `failed` for every other code.
C5_CompletedIffExitZero ==
    /\ []C5_Outcome
    /\ ((rpc = "script" /\ ~Falsy(cfg.script) /\ cfg.deliverables = <<>>)
            ~> (rpc = "returned"))

\* A run without deliverables whose child exited 0 has returned `completed`.
C5_Witness ==
    /\ rpc = "returned"
    /\ cfg.deliverables = <<>>
    /\ ~Falsy(cfg.script)
    /\ exitcode = 0
    /\ result.status = "completed"

\* The Result the call returns is the one its locals determine, whatever
\* the removals of the scratch directory did.
ResultFromLocals ==
    /\ outcome = "returned"
    /\ result.experiment_id = experiment_id
    /\ result.status = (IF exc = NoExc THEN "completed" ELSE "failed")
    /\ result.error_message = StrOf(exc)
    /\ result.artifacts_path = zip_path
    /\ result.end_time = end_time

PackagingBeforeRemoval ==
    \A i \in PackageAttempts, j \in RmtreeAttempts : i < j

\* C6 as stated: on every exit path the scratch directory no longer exists
\* when the call returns, it is removed only after the last packaging
\* attempt, and a failing removal does not change the returned Result.
C6_ScratchDirGone ==
    rpc = "returned" =>
        /\ ~wd.exists
        /\ PackagingBeforeRemoval
        /\ ResultFromLocals

\* C6, amended: on every exit path a removal of the scratch directory is
\* attempted, only after the last packaging attempt; the directory is gone
\* when the call returns unless every removal attempt failed; a failing
\* removal is swallowed and does not change the returned Result.
C6_ScratchDirRemovedUnlessRmtreeFails ==
    rpc = "returned" =>
        /\ RmtreeAttempts # {}
        /\ wd.exists = (\A j \in RmtreeAttempts : ev[j] = "rmtree_raised")
        /\ PackagingBeforeRemoval
        /\ ResultFromLocals

\* A failed run whose first removal raised and whose second one succeeded.
C6_Witness ==
    /\ rpc = "returned"
    /\ result.status = "failed"
    /\ "rmtree_raised" \in Range(ev)
    /\ "rmtree" \in Range(ev)
    /\ ~wd.exists

\* C7: when the command was spawned and the (last) packaging attempt
\* succeeded, the Result carries the path of an existing archive that holds
\* both training_stdout.txt and training_stderr.txt.
C7_LogsInArchive ==
    (rpc = "returned" /\ "spawn" \in Range(ev) /\ LastPackageOk) =>
        /\ result.artifacts_path = ZipPath(experiment_id)
        /\ ArchiveAt(result.artifacts_path).present
        /\ ArchiveAt(result.artifacts_path).complete
        /\ LogFiles \subseteq Range(ArchiveAt(result.artifacts_path).entries)

\* The packaging of the try block raised, the one of the handler succeeded.
C7_Witness ==
    /\ rpc = "returned"
    /\ "spawn" \in Range(ev)
    /\ "package_raised" \in Range(ev)
    /\ LastPackageOk
    /\ exitcode = 0

\* C8: when the command exits with a non-zero code n the Result is `failed`,
\* its error_message holds n and names training_stderr.txt, and if
\* artifacts_path is set the archive exists, holds both log files, and the
\* log references are <archive>::training_stdout.txt / ::training_stderr.txt.
C8_NonZeroExitFails ==
    (rpc = "returned" /\ ChildExited /\ exitcode # 0) =>
        /\ result.status = "failed"
        /\ result.error_message.code = exitcode
        /\ result.error_message.file = "training_stderr.txt"
        /\ (result.artifacts_path # NoPath =>
              /\ ArchiveAt(result.artifacts_path).present
              /\ LogFiles \subseteq Range(ArchiveAt(result.artifacts_path).entries)
              /\ result.training_stdout_path = Ref(result.artifacts_path, PStdout)
              /\ result.training_stderr_path = Ref(result.artifacts_path, PStderr))

\* The child exited 2 and the packaging of the handler succeeded.
C8_Witness ==
    /\ rpc = "returned"
    /\ exitcode = 2
    /\ result.artifacts_path # NoPath
    /\ result.training_stderr_path.entry = PStderr

NoDuplicates(seq) == \A i, j \in DOMAIN seq : seq[i] = seq[j] => i = j

\* C10: a call never lets an exception of the supervisor, the validator or
\* the packager escape; it builds exactly one Result, whose status is
\* `completed` or `failed`, whose end_time is set, and no orchestration state
\* is entered twice.
C10_OneTerminalResult ==
    /\ outcome \in {"none", "returned"}
    /\ NoDuplicates(phases)
    /\ Cardinality({i \in DOMAIN ev : ev[i] = "result"}) <= 1
    /\ rpc = "returned" =>
          /\ outcome = "returned"
          /\ Cardinality({i \in DOMAIN ev : ev[i] = "result"}) = 1
          /\ result.status \in Terminal
          /\ result.end_time # NoTime
          /\ phases = <<"created", "running", result.status>>

\* Both packaging attempts raised: the call still returned a failed Result.
C10_Witness ==
    /\ rpc = "returned"
    /\ Cardinality(PackageAttempts) = 2
    /\ ~LastPackageOk
    /\ result.status = "failed"
    /\ result.error_message = StrOf(PackagerError)

(***************************************************************************)
(* The validator: properties.                                              *)
(***************************************************************************)

\* The target of the validated deliverable exists, has the .json suffix and
\* json.load returns a document for it.
TargetParses ==
    /\ Exists(vwd, vdeliv.path)
    /\ Suffix(vdeliv.path) = ".json"
    /\ vwd.doc.kind # "invalid"

\* The top-level keys of a document: those of an object, none otherwise.
TopLevelKeys(doc) == IF doc.kind = "object" THEN doc.keys ELSE {}

\* C9: for a contains_keys deliverable whose target document parses,
\* validated is true and missing_keys is empty iff every entry of
\* required_keys is a top-level key of the document; otherwise validated is
\* false, status is still `delivered`, and missing_keys is exactly the absent
\* required keys in their required_keys order.
C9_ContainsKeys ==
    (vpc = "done" /\ vdeliv.validation = "contains_keys" /\ TargetParses) =>
        LET e == vstatus[vdeliv.type]
            absent == SelectSeq(vdeliv.required_keys,
                                LAMBDA k : k \notin TopLevelKeys(vwd.doc))
        IN  /\ e.status = "delivered"
            /\ "missing_keys" \in e.fields
            /\ e.validated = (absent = <<>>)
            /\ e.missing_keys = absent

(***************************************************************************)
(* The result store: properties.                                           *)
(***************************************************************************)

\* The result sets in which the file of id second t differs between f and g.
Changed(f, g) ==
    {p \in ResultSets \X (0..MaxClock) : Filed(f, p[1], p[2]) # Filed(g, p[1], p[2])}

\* C11: save_result files the record under the result set its status
\* chooses: a `completed` Result changes only completed/<id>.json and a
\* `failed` Result only failed/<id>.json, and when the call returns the record
\* of the Result is in that file.
C11_FiledByStatus ==
    /\ [](sret = "returned" /\ sarg.status \in {"completed", "failed"}
            => Filed(rfiles, sarg.status, sarg.experiment_id.second) = Record(sarg))
    /\ [][sarg'.status \in {"completed", "failed"}
            => Changed(rfiles, rfiles')
                  \subseteq {<<sarg'.status, sarg'.experiment_id.second>>}]_vars

C11_Witness ==
    /\ sret = "returned"
    /\ sarg.status = "completed"
    /\ Filed(rfiles, "completed", sarg.experiment_id.second) = Record(sarg)
    /\ Filed(rfiles, "failed", sarg.experiment_id.second).present

\* C12: no record with status `running` is in the completed or failed set.
C12_RunningNeverPersisted ==
    \A set \in {"completed", "failed"}, t \in 0..MaxClock :
        Filed(rfiles, set, t).present => Filed(rfiles, set, t).data.status # "running"

\* C13: save_result never removes or changes the record of a result set
\* other than the one it writes to, and never writes into queue/: a record
\* stays present once written, and queue/ stays empty.
C13_AppendOnly ==
    /\ [](\A t \in 0..MaxClock : ~Filed(rfiles, "queue", t).present)
    /\ [][\A set \in ResultSets, t \in 0..MaxClock :
             /\ Filed(rfiles, set, t).present => Filed(rfiles', set, t).present
             /\ Filed(rfiles', set, t) # Filed(rfiles, set, t)
                   => <<set, t>> = <<ResultPath(sarg').set, ResultPath(sarg').id>>]_vars

\* The same id saved as `completed` and as `failed`: both files are there.
C13_Witness ==
    \E t \in 0..MaxClock :
        /\ Filed(rfiles, "completed", t).complete
        /\ Filed(rfiles, "failed", t).complete
        /\ Filed(rfiles, "failed", t).data.status = "failed"
        /\ sret = "returned"

AllDirs(d) == \A n \in Range(DirNames) : d[n] = "dir"

UpdateSucceeded ==
    /\ upc = "done"
    /\ uarg.op = "update"
    /\ uret = "returned"
    /\ ufailed \subseteq {"get_label"}

\* C14: after a successful update_experiment_status(item, s) by the only
\* writer, the status labels of the item are exactly {s}, s is a label of
\* the repository, the other labels of the item, the labels of the other
\* items and every assignee are as before, and the comment, if one was given
\* (a non-empty one), is the only comment appended.
C14_ExactlyTheNewStatus ==
    UpdateSucceeded =>
        /\ ilabels[uarg.issue] \cap StatusLabels = {uarg.status}
        /\ uarg.status \in DOMAIN rlabels
        /\ ilabels[uarg.issue] \ StatusLabels = upre.ilabels[uarg.issue] \ StatusLabels
        /\ \A i \in Issues \ {uarg.issue} :
              ilabels[i] = upre.ilabels[i] /\ comments[i] = upre.comments[i]
        /\ comments[uarg.issue] =
              IF Truthy(uarg.comment)
                 THEN Append(upre.comments[uarg.issue], uarg.comment)
                 ELSE upre.comments[uarg.issue]

\* Two status labels and another label before, a created label, a comment.
C14_Witness ==
    /\ UpdateSucceeded
    /\ "get_label" \in ufailed
    /\ upre.ilabels[uarg.issue] = {ExperimentLabel, "claimed", "failed"}
    /\ uarg.status = "completed"
    /\ Truthy(uarg.comment)

\* C19: when update_experiment_status has returned, the item carries its
\* previous status labels or exactly the new one.
C19_AtomicTransition ==
    upc = "done" /\ uarg.op = "update" =>
        \/ ilabels[uarg.issue] \cap StatusLabels
              = upre.ilabels[uarg.issue] \cap StatusLabels
        \/ ilabels[uarg.issue] \cap StatusLabels = {uarg.status}

(***************************************************************************)
(* run_github_experiment: properties.                                      *)
(***************************************************************************)

SummaryUpdate(e, status) ==
    e.kind = "update" /\ e.status = status /\ Truthy(e.comment)

\* C15: the status updates of a run_github_experiment call are, in order, the
\* `in-progress` update, made and returned before run_experiment (and so the
\* command) starts, and one terminal update after run_experiment has
\* returned, whose label is the status of the returned Result; each carries
\* a comment.  When the terminal update did not fail, the item carries that
\* status label and no other.
C15_UpdatesInOrder ==
    /\ Len(glog) <= 3
    /\ Len(glog) >= 1 => SummaryUpdate(glog[1], "in-progress")
    /\ Len(glog) >= 2 => glog[2].kind = "run"
    /\ rpc # "idle" => Len(glog) >= 2 /\ gpc \in {"running", "wait_end", "done"}
    /\ gpc = "running" => upc = "done"
    /\ Len(glog) = 3 =>
          /\ rpc = "returned" /\ outcome = "returned"
          /\ result.status \in {"completed", "failed"}
          /\ SummaryUpdate(glog[3], result.status)
    /\ gpc = "done" /\ gret = "returned" =>
          /\ Len(glog) = 3
          /\ ~glog[3].failed => ilabels[gissue] \cap StatusLabels = {result.status}

\* A failed run whose two updates went through.
C15_Witness ==
    /\ gpc = "done"
    /\ gret = "returned"
    /\ result.status = "failed"
    /\ ~glog[1].failed
    /\ ~glog[3].failed
    /\ ilabels[gissue] \cap StatusLabels = {"failed"}

\* C16: update_experiment_status and add_experiment_comment return whatever
\* store call fails, so a run_github_experiment call that has fetched its
\* item runs the experiment and returns its terminal Result.
C16_UpdatesNeverBlock ==
    /\ [](uret # "raised")
    /\ [](gpc = "done" /\ glog # <<>>
             => gret = "returned" /\ outcome = "returned"
                /\ result.status \in {"completed", "failed"})
    /\ (gpc = "update_start" ~> (gpc = "done" /\ gret = "returned"))

\* Both status updates of a completed run failed.
C16_Witness ==
    /\ gpc = "done"
    /\ gret = "returned"
    /\ glog[1].failed
    /\ glog[3].failed
    /\ result.status = "completed"

\* C20: run_experiment is started for an item only if the item has an
\* assignee.
C20_OnlyClaimedItemsRun ==
    gpc = "running" => assignee[gissue] # None

(***************************************************************************)
(* The configuration of a run: properties.                                 *)
(***************************************************************************)

\* C17: no step of run_experiment changes the ExperimentConfig it was given.
C17_ConfigUnchanged ==
    [][rpc \notin {"idle", "returned"} => cfg' = cfg]_vars

(***************************************************************************)
(* The commands: properties.                                               *)
(***************************************************************************)

\* C21: a persisted Result is write-once: an archive written in full and a
\* record written in full are never changed or replaced afterwards, by any
\* later run or save.
C21_WriteOnce ==
    [][\A t \in 0..MaxClock :
          /\ archives[t].complete => archives'[t] = archives[t]
          /\ \A set \in ResultSets :
                Filed(rfiles, set, t).complete
                   => Filed(rfiles', set, t) = Filed(rfiles, set, t)]_vars

\* C22: when a command has ended, every run_experiment call it made has
\* had its Result passed to save_result exactly once: as many saves as runs,
\* the last of them of the Result returned last.
C22_EveryResultSaved ==
    kpc = "done"
        => /\ Len(ksaves) = runs
           /\ runs > 0 => ksaves[Len(ksaves)] = Saved(result)

\* The same for the commands that run a config file.
C22_FileRunsSaved == kcmd \in {"run", "batch"} => C22_EveryResultSaved

(***************************************************************************)
(* The pipeline: the command, the failure path, the order of the steps.    *)
(***************************************************************************)

\* The tokens the command of a config resolves to, before any flag.
BaseTokens(c) ==
    IF c.script.kind = "list" THEN c.script.toks ELSE Split(c.script.text)

\* C23: a command that resolves to zero tokens is rejected before anything
\* is spawned: subprocess.run is never reached, no log file is created in
\* the scratch directory, and the run ends `failed` with the config error
\* as error_message.
C23_EmptyCommandRejected ==
    (rpc # "idle" /\ BaseTokens(cfg) = <<>>) =>
        /\ Range(ev) \cap {"spawn", "spawn_raised"} = {}
        /\ wd.files \cap LogFiles = {}
        /\ rpc = "returned" =>
              /\ result.status = "failed"
              /\ result.error_message = StrOf(ConfigError)

\* The same for the commands the falsy check of the script does reject.
C23_FalsyCommandRejected == Falsy(cfg.script) => C23_EmptyCommandRejected

\* The number of tokens a parameter contributes, and the number contributed
\* by the parameters before the i-th.
FlagWidth(p) == IF p.val.t = "bool" THEN (IF p.val.b THEN 1 ELSE 0) ELSE 2
RECURSIVE FlagOffset(_, _)
FlagOffset(params, i) ==
    IF i <= 1 THEN 0 ELSE FlagOffset(params, i - 1) + FlagWidth(params[i - 1])

\* command is the base tokens of c followed, parameter by parameter in the
\* order of c.params, by --key (nothing for false) and the value's string
\* form (for a value that is not a bool).
CommandIs(command, c) ==
    LET n == Len(BaseTokens(c))
    IN /\ Len(command) = n + FlagOffset(c.params, Len(c.params) + 1)
       /\ SubSeq(command, 1, n) = BaseTokens(c)
       /\ \A i \in DOMAIN c.params :
             LET o == n + FlagOffset(c.params, i)
             IN /\ FlagWidth(c.params[i]) >= 1
                      => command[o + 1] = <<"-", "-">> \o c.params[i].key
                /\ FlagWidth(c.params[i]) = 2
                      => command[o + 2] = Str(c.params[i].val)

\* C24: the command rendered from the config passed to the call is its base
\* tokens followed by the flags of its parameters in their order (true:
\* --key; false: nothing; any other value: --key and str(value)), and that
\* command is the one given to subprocess.run.
C24_RenderedCommand ==
    [][/\ (rpc = "script" /\ rpc' = "spawn") => CommandIs(cmd', cfg)
       /\ rpc \in {"spawn", "child"} => cmd' = cmd]_vars

\* `p a` with lr=1, v=true, q=false was spawned as p a --lr 1 --v.
C24_Witness ==
    /\ rpc = "child"
    /\ cfg.script = StrScript(<<"p", " ", "a">>)
    /\ Len(cfg.params) = 3
    /\ cmd = << <<"p">>, <<"a">>, <<"-", "-", "l", "r">>, <<"1">>, <<"-", "-", "v">> >>

\* The exception that took the run to its handler, read off the steps made.
Originating ==
    CASE "config_error" \in Range(ev) -> ConfigError
      [] "spawn_raised" \in Range(ev) ->
            (IF cmd = <<>> THEN EmptyArgsError ELSE SpawnError)
      [] "exit" \in Range(ev) /\ exitcode # 0 -> ExitError(exitcode)
      [] "validate_raised" \in Range(ev) -> ValidatorError
      [] OTHER -> PackagerError

\* The run failed and the packaging attempt of its handler failed too.
HandlerPackagingFailed ==
    /\ rpc = "returned"
    /\ PackageAttempts # {}
    /\ ev[LastOf(PackageAttempts)] = "package_raised"

\* The Result of such a run: `failed`, with the originating error and
\* without an archive or log references.
OriginatingErrorKept ==
    /\ outcome = "returned"
    /\ result.status = "failed"
    /\ result.error_message = StrOf(Originating)
    /\ result.artifacts_path = NoPath
    /\ result.training_stdout_path = NoRef
    /\ result.training_stderr_path = NoRef

\* C25 as stated: a packaging failure in the handler does not mask the
\* originating error, and the scratch directory has been deleted.
C25_FailureNotMasked ==
    HandlerPackagingFailed => (OriginatingErrorKept /\ ~wd.exists)

\* C25: a packaging failure in the handler does not mask the originating
\* error; the deletion of the scratch directory is attempted, and the
\* directory is gone unless every attempt to delete it failed.
C25_FailureNotMaskedDirRemovalTried ==
    HandlerPackagingFailed =>
        /\ OriginatingErrorKept
        /\ RmtreeAttempts # {}
        /\ wd.exists => \A i \in RmtreeAttempts : ev[i] = "rmtree_raised"

\* The child exited 2, the packaging of the handler failed, the directory
\* was deleted.
C25_Witness ==
    /\ HandlerPackagingFailed
    /\ exitcode = 2
    /\ result.error_message = StrOf(ExitError(2))
    /\ ~wd.exists

\* The deliverable types a config declares.
DeclaredTypes(c) == {c.deliverables[i].type : i \in DOMAIN c.deliverables}

\* The Result is `completed` and has a status entry for every declared type.
CompletedWithStatuses ==
    /\ outcome = "returned"
    /\ result.status = "completed"
    /\ result.deliverables_status = dstatus
    /\ DOMAIN result.deliverables_status = DeclaredTypes(cfg)

\* C26 as stated: when the command exited 0 and packaging succeeded the
\* Result is `completed`, with an entry for every declared deliverable type.
C26_DeliverablesNeverAbort ==
    (rpc = "returned" /\ exitcode = 0 /\ LastPackageOk) => CompletedWithStatuses

\* C26: when the command exited 0, the validator returned its statuses and
\* the packaging that follows it succeeded, the Result is `completed`
\* whatever the statuses are, with an entry for every declared type.
C26_StatusesNeverAbort ==
    (rpc = "returned" /\ exitcode = 0 /\ "validate" \in Range(ev) /\ FirstPackageOk)
        => CompletedWithStatuses

\* A completed run whose metrics deliverable has status `error`.
C26_Witness ==
    /\ rpc = "returned"
    /\ result.status = "completed"
    /\ "metrics" \in DOMAIN result.deliverables_status
    /\ result.deliverables_status["metrics"].status = "error"
    /\ ~result.deliverables_status["metrics"].validated

\* The positions in ev of the steps of the supervisor and of the validator.
SupervisorSteps ==
    {i \in DOMAIN ev : ev[i] \in {"config_error", "render", "spawn", "spawn_raised", "exit"}}
ValidatorSteps == {i \in DOMAIN ev : ev[i] \in {"validate", "validate_raised"}}

\* The supervisor has finished before the validator starts; every run that
\* has returned made a packaging attempt, the last one before any attempt to
\* delete the scratch directory.
SupervisorFirstPackagingLast ==
    /\ \A i \in ValidatorSteps :
          /\ \E j \in 1..(i - 1) : ev[j] = "exit"
          /\ \A j \in SupervisorSteps : j < i
    /\ rpc = "returned" =>
          /\ PackageAttempts # {}
          /\ \A j \in RmtreeAttempts : LastOf(PackageAttempts) < j

\* C27 as stated: the steps of a run are strictly ordered, and whenever the
\* packager starts the validator has processed every deliverable.
C27_StepsOrdered ==
    /\ SupervisorFirstPackagingLast
    /\ \A i \in PackageAttempts, j \in ValidatorSteps : j < i /\ ev[j] = "validate"

\* C27: the supervisor finishes before the validator starts; the validator
\* never runs after a packaging attempt, and the packaging of the normal
\* flow starts only when the validator has returned a status for every
\* declared deliverable type; every run that returns has made a packaging
\* attempt, the last one before any attempt to delete the scratch directory.
C27_StepsOrderedOnEachPath ==
    /\ SupervisorFirstPackagingLast
    /\ \A i \in PackageAttempts, j \in ValidatorSteps : j < i
    /\ rpc = "package" =>
          /\ PackageAttempts = {}
          /\ ev[Len(ev)] = "validate"
          /\ DOMAIN dstatus = DeclaredTypes(cfg)

\* A run that validated, whose packaging failed in the try block and
\* succeeded in the handler, and whose scratch directory was then deleted.
C27_Witness ==
    /\ rpc = "returned"
    /\ ev = <<"mkdtemp", "render", "spawn", "exit", "validate", "package_raised",
              "package", "rmtree", "result">>

(***************************************************************************)
(* The validator and the packager: further properties.                     *)
(***************************************************************************)

\* C28: the status of a deliverable follows its kind.  For `exists` and any
\* unknown kind: `delivered` iff the path exists, `missing` otherwise, and
\* validated equals existence.  For `contains_keys`: `missing` iff the target
\* is absent or is not a .json path, `error` with the message iff it is
\* there and does not parse, `delivered` otherwise; validated is false for
\* `missing` and `error`.  The call returns in every case.
C28_StatusFollowsKind ==
    vpc = "done" =>
        LET e == vstatus[vdeliv.type]
            there == Exists(vwd, vdeliv.path)
            json == Suffix(vdeliv.path) = ".json"
        IN  IF vdeliv.validation # "contains_keys"
               THEN /\ e.status = (IF there THEN "delivered" ELSE "missing")
                    /\ e.validated = there
               ELSE /\ e.status \in {"missing", "error", "delivered"}
                    /\ (e.status = "missing") = (~there \/ ~json)
                    /\ (e.status = "error") = (there /\ json /\ vwd.doc.kind = "invalid")
                    /\ e.status \in {"missing", "error"} => ~e.validated
                    /\ e.status = "error" => ("error" \in e.fields /\ e.error # "")

\* The same for the documents on which `key in data` does not raise.
C28_StatusFollowsKindOfContainers ==
    (vwd.doc.kind # "number" \/ vdeliv.required_keys = <<>>) => C28_StatusFollowsKind

\* The entry set the deliverables ds and the working directory w determine:
\* the paths of the deliverables that are files, the files under the
\* deliverables that are directories, and the log files that are there.
ExpectedEntries(ds, w) ==
    {ds[i].path : i \in {j \in DOMAIN ds : IsFile(w, ds[j].path)}}
        \cup {f \in w.files : \E i \in DOMAIN ds :
                                  IsDir(w, ds[i].path) /\ Under(ds[i].path, f)}
        \cup (LogFiles \cap w.files)

\* C29: whenever a packaging attempt has written its archive in full, the
\* entry set of the archive is the one determined by the deliverables of the
\* config and the content of the scratch directory, and by nothing else: so
\* two attempts on the same inputs give the same entry set.
C29_EntrySetOfInputs ==
    [][(archives' # archives /\ archives'[experiment_id.second].complete)
          => Range(archives'[experiment_id.second].entries)
                = ExpectedEntries(cfg.deliverables, wd)]_vars

\* An archive with a deliverable file, a file of a deliverable directory and
\* both log files, written at the second attempt of its run.
C29_Witness ==
    /\ rpc = "returned"
    /\ "package_raised" \in Range(ev)
    /\ archives[experiment_id.second].complete
    /\ Range(archives[experiment_id.second].entries) = {PJson, POutW} \cup LogFiles

\* The log reference r of a Result for the log file log is absent, or it is
\* <artifacts_path>::<log> with the log file created in the scratch
\* directory, the last packaging attempt successful, and the archive at
\* artifacts_path holding the entry.
LogRefSound(r, log) ==
    r # NoRef =>
        /\ result.artifacts_path # NoPath
        /\ r = [zip |-> result.artifacts_path, sep |-> "::", entry |-> log]
        /\ Range(ev) \cap {"spawn", "spawn_raised"} # {}
        /\ LastPackageOk
        /\ ArchiveAt(result.artifacts_path).complete
        /\ log \in Range(ArchiveAt(result.artifacts_path).entries)

\* C30: in every returned Result a log reference is present only if the log
\* file existed and packaging succeeded; it then is
\* <artifacts_path>::<log file name>, artifacts_path is present and the
\* archive there contains the entry.
C30_LogRefsSound ==
    rpc = "returned" =>
        /\ LogRefSound(result.training_stdout_path, PStdout)
        /\ LogRefSound(result.training_stderr_path, PStderr)

\* A failed Result with both references into the archive of its handler.
C30_Witness ==
    /\ rpc = "returned"
    /\ result.status = "failed"
    /\ result.training_stdout_path = Ref(ZipPath(experiment_id), PStdout)
    /\ result.training_stderr_path = Ref(ZipPath(experiment_id), PStderr)

(***************************************************************************)
(* The Result, the status labels and the archive: further properties.      *)
(***************************************************************************)

\* C31: in every returned Result error_message is present, with a text that
\* is not empty, iff the status is `failed`; a `completed` Result has none.
C31_ErrorMessageIffFailed ==
    rpc = "returned" =>
        /\ (result.status = "failed") = (result.error_message # NoMessage)
        /\ (result.status = "failed") = (result.error_message.text # "")
        /\ result.status = "completed" => result.error_message = NoMessage

\* The child exited 1: a failed Result with the message of that exit code.
C31_Witness ==
    /\ rpc = "returned"
    /\ result.status = "failed"
    /\ result.error_message = StrOf(ExitError(1))

\* No claim_experiment and no update_experiment_status call is under way.
NoCallUnderWay ==
    /\ \A w \in Workers : cpc[w] \in {"idle", "done"}
    /\ upc \in {"idle", "done"}

\* C32: once the calls made so far have returned, every item carries at
\* most one of the status labels claimed, in-progress, completed, failed.
C32_AtMostOneStatusLabel ==
    NoCallUnderWay =>
        \A i \in Issues : Cardinality(ilabels[i] \cap StatusLabels) <= 1

\* C33: no archive holds two entries of the same name; each file of the
\* scratch directory is written to an archive at most once, whatever the
\* deliverable paths are.
C33_NoDuplicateEntries ==
    \A id \in DOMAIN archives :
        archives[id].present => NoDuplicates(archives[id].entries)

====
